---- MODULE Spec2Model ----
(***************************************************************************)
(* Model of the PeakTech backend described in the repository: the Express  *)
(* middleware chain (rate limiter, protect, authorize, error handler), the *)
(* project controller with the Project schema and its pre-save slug hook,  *)
(* and the contact controller with the Contact schema and the two          *)
(* notification mails.                                                     *)
(*                                                                         *)
(* Text values (titles, slugs, e-mail addresses) are sequences of          *)
(* one-character strings, so that the string operations of the source      *)
(* (toLowerCase, trim, replace with a regular expression, match) are       *)
(* computed character by character.                                        *)
(***************************************************************************)
EXTENDS Integers, Sequences, FiniteSets, TLC

VARIABLES users, projects, nextProjectId, contacts, nextContactId, outbox, hits, resp,
          running, page

vars == <<users, projects, nextProjectId, contacts, nextContactId, outbox, hits, resp,
         running, page>>

stores == <<users, projects, contacts>>

-----------------------------------------------------------------------------
(* Characters and the string primitives of JavaScript used by the source.  *)

UpperSeq == <<"A","B","C","D","E","F","G","H","I","J","K","L","M",
              "N","O","P","Q","R","S","T","U","V","W","X","Y","Z">>

LowerSeq == <<"a","b","c","d","e","f","g","h","i","j","k","l","m",
              "n","o","p","q","r","s","t","u","v","w","x","y","z">>

Digits == {"0","1","2","3","4","5","6","7","8","9"}

Range(s) == {s[i] : i \in DOMAIN s}

\* \w of a JavaScript regular expression: [A-Za-z0-9_]
IsWordChar(ch) == ch \in Range(UpperSeq) \cup Range(LowerSeq) \cup Digits \cup {"_"}

\* A string of a module holds the characters U+0000 to U+00FF (all but the
\* backtick) and, above them, the characters of the Basic Multilingual Plane
\* whose code point ends in a byte of 0x80 or more.  The tables below give
\* the lower-case mapping of Unicode for every such character that has one.
\* Within Latin-1 the cased letters beyond A-Z are U+00C0 to U+00DE without
\* the multiplication sign, with their lower-case forms 32 code points above.
UpperLatin1 == <<"À","Á","Â","Ã","Ä","Å","Æ","Ç","È","É","Ê","Ë","Ì","Í","Î",
                 "Ï","Ð","Ñ","Ò","Ó","Ô","Õ","Ö","Ø","Ù","Ú","Û","Ü","Ý","Þ">>

LowerLatin1 == <<"à","á","â","ã","ä","å","æ","ç","è","é","ê","ë","ì","í","î",
                 "ï","ð","ñ","ò","ó","ô","õ","ö","ø","ù","ú","û","ü","ý","þ">>

\* Upper-case and title-case characters above U+00FF and, position by
\* position, their lower-case forms.
UpperUnicode ==
  <<"Ƃ", "Ƅ", "Ƈ", "Ƌ", "Ǝ", "Ƒ", "Ƙ", "Ơ", "Ƣ", "Ƥ", "Ʀ", "Ƨ", "Ʃ", "Ƭ", "Ʈ", "Ư",
    "Ʊ", "Ʋ", "Ƴ", "Ƶ", "Ʒ", "Ƹ", "Ƽ", "Ǆ", "ǅ", "Ǉ", "ǈ", "Ǌ", "ǋ", "Ǎ", "Ǐ", "Ǒ",
    "Ǔ", "Ǖ", "Ǘ", "Ǚ", "Ǜ", "Ǟ", "Ǡ", "Ǣ", "Ǥ", "Ǧ", "Ǩ", "Ǫ", "Ǭ", "Ǯ", "Ǳ", "ǲ",
    "Ǵ", "Ƕ", "Ƿ", "Ǹ", "Ǻ", "Ǽ", "Ǿ", "Ά", "Έ", "Ή", "Ί", "Ό", "Ύ", "Ώ", "Α", "Β",
    "Γ", "Δ", "Ε", "Ζ", "Η", "Θ", "Ι", "Κ", "Λ", "Μ", "Ν", "Ξ", "Ο", "Π", "Ρ", "Σ",
    "Τ", "Υ", "Φ", "Χ", "Ψ", "Ω", "Ϊ", "Ϋ", "Ϗ", "Ϙ", "Ϛ", "Ϝ", "Ϟ", "Ϡ", "Ϣ", "Ϥ",
    "Ϧ", "Ϩ", "Ϫ", "Ϭ", "Ϯ", "ϴ", "Ϸ", "Ϲ", "Ϻ", "Ҁ", "Ҋ", "Ҍ", "Ҏ", "Ґ", "Ғ", "Ҕ",
    "Җ", "Ҙ", "Қ", "Ҝ", "Ҟ", "Ҡ", "Ң", "Ҥ", "Ҧ", "Ҩ", "Ҫ", "Ҭ", "Ү", "Ұ", "Ҳ", "Ҵ",
    "Ҷ", "Ҹ", "Һ", "Ҽ", "Ҿ", "Ӏ", "Ӂ", "Ӄ", "Ӆ", "Ӈ", "Ӊ", "Ӌ", "Ӎ", "Ӑ", "Ӓ", "Ӕ",
    "Ӗ", "Ә", "Ӛ", "Ӝ", "Ӟ", "Ӡ", "Ӣ", "Ӥ", "Ӧ", "Ө", "Ӫ", "Ӭ", "Ӯ", "Ӱ", "Ӳ", "Ӵ",
    "Ӷ", "Ӹ", "Ӻ", "Ӽ", "Ӿ", "Ꮀ", "Ꮁ", "Ꮂ", "Ꮃ", "Ꮄ", "Ꮅ", "Ꮆ", "Ꮇ", "Ꮈ", "Ꮉ", "Ꮊ",
    "Ꮋ", "Ꮌ", "Ꮍ", "Ꮎ", "Ꮏ", "Ꮐ", "Ꮑ", "Ꮒ", "Ꮓ", "Ꮔ", "Ꮕ", "Ꮖ", "Ꮗ", "Ꮘ", "Ꮙ", "Ꮚ",
    "Ꮛ", "Ꮜ", "Ꮝ", "Ꮞ", "Ꮟ", "Ꮠ", "Ꮡ", "Ꮢ", "Ꮣ", "Ꮤ", "Ꮥ", "Ꮦ", "Ꮧ", "Ꮨ", "Ꮩ", "Ꮪ",
    "Ꮫ", "Ꮬ", "Ꮭ", "Ꮮ", "Ꮯ", "Ꮰ", "Ꮱ", "Ꮲ", "Ꮳ", "Ꮴ", "Ꮵ", "Ꮶ", "Ꮷ", "Ꮸ", "Ꮹ", "Ꮺ",
    "Ꮻ", "Ꮼ", "Ꮽ", "Ꮾ", "Ꮿ", "Ᏸ", "Ᏹ", "Ᏺ", "Ᏻ", "Ᏼ", "Ᏽ", "Ა", "Ბ", "Გ", "Დ", "Ე",
    "Ვ", "Ზ", "Თ", "Ი", "Კ", "Ლ", "Მ", "Ნ", "Ო", "Პ", "Ჟ", "Რ", "Ს", "Ტ", "Უ", "Ფ",
    "Ქ", "Ღ", "Ყ", "Შ", "Ჩ", "Ც", "Ძ", "Წ", "Ჭ", "Ხ", "Ჯ", "Ჰ", "Ჱ", "Ჲ", "Ჳ", "Ჴ",
    "Ჵ", "Ჶ", "Ჷ", "Ჸ", "Ჹ", "Ჺ", "Ჽ", "Ჾ", "Ჿ", "Ẁ", "Ẃ", "Ẅ", "Ẇ", "Ẉ", "Ẋ", "Ẍ",
    "Ẏ", "Ẑ", "Ẓ", "Ẕ", "ẞ", "Ạ", "Ả", "Ấ", "Ầ", "Ẩ", "Ẫ", "Ậ", "Ắ", "Ằ", "Ẳ", "Ẵ",
    "Ặ", "Ẹ", "Ẻ", "Ẽ", "Ế", "Ề", "Ể", "Ễ", "Ệ", "Ỉ", "Ị", "Ọ", "Ỏ", "Ố", "Ồ", "Ổ",
    "Ỗ", "Ộ", "Ớ", "Ờ", "Ở", "Ỡ", "Ợ", "Ụ", "Ủ", "Ứ", "Ừ", "Ử", "Ữ", "Ự", "Ỳ", "Ỵ",
    "Ỷ", "Ỹ", "Ỻ", "Ỽ", "Ỿ", "ᾈ", "ᾉ", "ᾊ", "ᾋ", "ᾌ", "ᾍ", "ᾎ", "ᾏ", "ᾘ", "ᾙ", "ᾚ",
    "ᾛ", "ᾜ", "ᾝ", "ᾞ", "ᾟ", "ᾨ", "ᾩ", "ᾪ", "ᾫ", "ᾬ", "ᾭ", "ᾮ", "ᾯ", "Ᾰ", "Ᾱ", "ᾼ",
    "ῌ", "Ῐ", "Ῑ", "Ῠ", "Ῡ", "Ῥ", "ῼ", "Ↄ", "Ⓐ", "Ⓑ", "Ⓒ", "Ⓓ", "Ⓔ", "Ⓕ", "Ⓖ", "Ⓗ",
    "Ⓘ", "Ⓙ", "Ⓚ", "Ⓛ", "Ⓜ", "Ⓝ", "Ⓞ", "Ⓟ", "Ⓠ", "Ⓡ", "Ⓢ", "Ⓣ", "Ⓤ", "Ⓥ", "Ⓦ", "Ⓧ",
    "Ⓨ", "Ⓩ", "Ⲁ", "Ⲃ", "Ⲅ", "Ⲇ", "Ⲉ", "Ⲋ", "Ⲍ", "Ⲏ", "Ⲑ", "Ⲓ", "Ⲕ", "Ⲗ", "Ⲙ", "Ⲛ",
    "Ⲝ", "Ⲟ", "Ⲡ", "Ⲣ", "Ⲥ", "Ⲧ", "Ⲩ", "Ⲫ", "Ⲭ", "Ⲯ", "Ⲱ", "Ⲳ", "Ⲵ", "Ⲷ", "Ⲹ", "Ⲻ",
    "Ⲽ", "Ⲿ", "Ⳁ", "Ⳃ", "Ⳅ", "Ⳇ", "Ⳉ", "Ⳋ", "Ⳍ", "Ⳏ", "Ⳑ", "Ⳓ", "Ⳕ", "Ⳗ", "Ⳙ", "Ⳛ",
    "Ⳝ", "Ⳟ", "Ⳡ", "Ⳣ", "Ⳬ", "Ⳮ", "Ⳳ", "Ꚁ", "Ꚃ", "Ꚅ", "Ꚇ", "Ꚉ", "Ꚋ", "Ꚍ", "Ꚏ", "Ꚑ",
    "Ꚓ", "Ꚕ", "Ꚗ", "Ꚙ", "Ꚛ", "Ꞁ", "Ꞃ", "Ꞅ", "Ꞇ", "Ꞌ", "Ꞑ", "Ꞓ", "Ꞗ", "Ꞙ", "Ꞛ", "Ꞝ",
    "Ꞟ", "Ꞡ", "Ꞣ", "Ꞥ", "Ꞧ", "Ꞩ", "Ʞ", "Ʇ", "Ʝ", "Ꞵ", "Ꞷ", "Ꞹ", "Ꞻ", "Ꞽ", "Ꞿ", "Ꟁ",
    "Ꟃ", "Ꞔ", "Ʂ", "Ᶎ", "Ꟈ", "Ꟊ", "Ꟑ", "Ꟗ", "Ꟙ", "Ꟶ",
    "Ᲊ", "Ꟍ", "꟎", "꟒", "꟔", "Ꟛ", "Ƛ">>

LowerUnicode ==
  <<"ƃ", "ƅ", "ƈ", "ƌ", "ǝ", "ƒ", "ƙ", "ơ", "ƣ", "ƥ", "ʀ", "ƨ", "ʃ", "ƭ", "ʈ", "ư",
    "ʊ", "ʋ", "ƴ", "ƶ", "ʒ", "ƹ", "ƽ", "ǆ", "ǆ", "ǉ", "ǉ", "ǌ", "ǌ", "ǎ", "ǐ", "ǒ",
    "ǔ", "ǖ", "ǘ", "ǚ", "ǜ", "ǟ", "ǡ", "ǣ", "ǥ", "ǧ", "ǩ", "ǫ", "ǭ", "ǯ", "ǳ", "ǳ",
    "ǵ", "ƕ", "ƿ", "ǹ", "ǻ", "ǽ", "ǿ", "ά", "έ", "ή", "ί", "ό", "ύ", "ώ", "α", "β",
    "γ", "δ", "ε", "ζ", "η", "θ", "ι", "κ", "λ", "μ", "ν", "ξ", "ο", "π", "ρ", "σ",
    "τ", "υ", "φ", "χ", "ψ", "ω", "ϊ", "ϋ", "ϗ", "ϙ", "ϛ", "ϝ", "ϟ", "ϡ", "ϣ", "ϥ",
    "ϧ", "ϩ", "ϫ", "ϭ", "ϯ", "θ", "ϸ", "ϲ", "ϻ", "ҁ", "ҋ", "ҍ", "ҏ", "ґ", "ғ", "ҕ",
    "җ", "ҙ", "қ", "ҝ", "ҟ", "ҡ", "ң", "ҥ", "ҧ", "ҩ", "ҫ", "ҭ", "ү", "ұ", "ҳ", "ҵ",
    "ҷ", "ҹ", "һ", "ҽ", "ҿ", "ӏ", "ӂ", "ӄ", "ӆ", "ӈ", "ӊ", "ӌ", "ӎ", "ӑ", "ӓ", "ӕ",
    "ӗ", "ә", "ӛ", "ӝ", "ӟ", "ӡ", "ӣ", "ӥ", "ӧ", "ө", "ӫ", "ӭ", "ӯ", "ӱ", "ӳ", "ӵ",
    "ӷ", "ӹ", "ӻ", "ӽ", "ӿ", "ꮀ", "ꮁ", "ꮂ", "ꮃ", "ꮄ", "ꮅ", "ꮆ", "ꮇ", "ꮈ", "ꮉ", "ꮊ",
    "ꮋ", "ꮌ", "ꮍ", "ꮎ", "ꮏ", "ꮐ", "ꮑ", "ꮒ", "ꮓ", "ꮔ", "ꮕ", "ꮖ", "ꮗ", "ꮘ", "ꮙ", "ꮚ",
    "ꮛ", "ꮜ", "ꮝ", "ꮞ", "ꮟ", "ꮠ", "ꮡ", "ꮢ", "ꮣ", "ꮤ", "ꮥ", "ꮦ", "ꮧ", "ꮨ", "ꮩ", "ꮪ",
    "ꮫ", "ꮬ", "ꮭ", "ꮮ", "ꮯ", "ꮰ", "ꮱ", "ꮲ", "ꮳ", "ꮴ", "ꮵ", "ꮶ", "ꮷ", "ꮸ", "ꮹ", "ꮺ",
    "ꮻ", "ꮼ", "ꮽ", "ꮾ", "ꮿ", "ᏸ", "ᏹ", "ᏺ", "ᏻ", "ᏼ", "ᏽ", "ა", "ბ", "გ", "დ", "ე",
    "ვ", "ზ", "თ", "ი", "კ", "ლ", "მ", "ნ", "ო", "პ", "ჟ", "რ", "ს", "ტ", "უ", "ფ",
    "ქ", "ღ", "ყ", "შ", "ჩ", "ც", "ძ", "წ", "ჭ", "ხ", "ჯ", "ჰ", "ჱ", "ჲ", "ჳ", "ჴ",
    "ჵ", "ჶ", "ჷ", "ჸ", "ჹ", "ჺ", "ჽ", "ჾ", "ჿ", "ẁ", "ẃ", "ẅ", "ẇ", "ẉ", "ẋ", "ẍ",
    "ẏ", "ẑ", "ẓ", "ẕ", "ß", "ạ", "ả", "ấ", "ầ", "ẩ", "ẫ", "ậ", "ắ", "ằ", "ẳ", "ẵ",
    "ặ", "ẹ", "ẻ", "ẽ", "ế", "ề", "ể", "ễ", "ệ", "ỉ", "ị", "ọ", "ỏ", "ố", "ồ", "ổ",
    "ỗ", "ộ", "ớ", "ờ", "ở", "ỡ", "ợ", "ụ", "ủ", "ứ", "ừ", "ử", "ữ", "ự", "ỳ", "ỵ",
    "ỷ", "ỹ", "ỻ", "ỽ", "ỿ", "ᾀ", "ᾁ", "ᾂ", "ᾃ", "ᾄ", "ᾅ", "ᾆ", "ᾇ", "ᾐ", "ᾑ", "ᾒ",
    "ᾓ", "ᾔ", "ᾕ", "ᾖ", "ᾗ", "ᾠ", "ᾡ", "ᾢ", "ᾣ", "ᾤ", "ᾥ", "ᾦ", "ᾧ", "ᾰ", "ᾱ", "ᾳ",
    "ῃ", "ῐ", "ῑ", "ῠ", "ῡ", "ῥ", "ῳ", "ↄ", "ⓐ", "ⓑ", "ⓒ", "ⓓ", "ⓔ", "ⓕ", "ⓖ", "ⓗ",
    "ⓘ", "ⓙ", "ⓚ", "ⓛ", "ⓜ", "ⓝ", "ⓞ", "ⓟ", "ⓠ", "ⓡ", "ⓢ", "ⓣ", "ⓤ", "ⓥ", "ⓦ", "ⓧ",
    "ⓨ", "ⓩ", "ⲁ", "ⲃ", "ⲅ", "ⲇ", "ⲉ", "ⲋ", "ⲍ", "ⲏ", "ⲑ", "ⲓ", "ⲕ", "ⲗ", "ⲙ", "ⲛ",
    "ⲝ", "ⲟ", "ⲡ", "ⲣ", "ⲥ", "ⲧ", "ⲩ", "ⲫ", "ⲭ", "ⲯ", "ⲱ", "ⲳ", "ⲵ", "ⲷ", "ⲹ", "ⲻ",
    "ⲽ", "ⲿ", "ⳁ", "ⳃ", "ⳅ", "ⳇ", "ⳉ", "ⳋ", "ⳍ", "ⳏ", "ⳑ", "ⳓ", "ⳕ", "ⳗ", "ⳙ", "ⳛ",
    "ⳝ", "ⳟ", "ⳡ", "ⳣ", "ⳬ", "ⳮ", "ⳳ", "ꚁ", "ꚃ", "ꚅ", "ꚇ", "ꚉ", "ꚋ", "ꚍ", "ꚏ", "ꚑ",
    "ꚓ", "ꚕ", "ꚗ", "ꚙ", "ꚛ", "ꞁ", "ꞃ", "ꞅ", "ꞇ", "ꞌ", "ꞑ", "ꞓ", "ꞗ", "ꞙ", "ꞛ", "ꞝ",
    "ꞟ", "ꞡ", "ꞣ", "ꞥ", "ꞧ", "ꞩ", "ʞ", "ʇ", "ʝ", "ꞵ", "ꞷ", "ꞹ", "ꞻ", "ꞽ", "ꞿ", "ꟁ",
    "ꟃ", "ꞔ", "ʂ", "ᶎ", "ꟈ", "ꟊ", "ꟑ", "ꟗ", "ꟙ", "ꟶ",
    "ᲊ", "ꟍ", "꟏", "ꟓ", "ꟕ", "ꟛ", "ƛ">>

\* Upper-case characters whose lower-case form is a character that a string
\* of a module cannot hold; the form is written by its code point, a text
\* element that is neither a word character nor white space nor cased.
UpperFar ==
  <<"Ɓ", "Ɔ", "Ɖ", "Ɗ", "Ə", "Ɛ", "Ɠ", "Ɣ", "Ɩ", "Ɨ", "Ɯ", "Ɲ", "Ɵ", "Ͻ", "Ͼ", "Ͽ",
    "Ⴀ", "Ⴁ", "Ⴂ", "Ⴃ", "Ⴄ", "Ⴅ", "Ⴆ", "Ⴇ", "Ⴈ", "Ⴉ", "Ⴊ", "Ⴋ", "Ⴌ", "Ⴍ", "Ⴎ", "Ⴏ",
    "Ⴐ", "Ⴑ", "Ⴒ", "Ⴓ", "Ⴔ", "Ⴕ", "Ⴖ", "Ⴗ", "Ⴘ", "Ⴙ", "Ⴚ", "Ⴛ", "Ⴜ", "Ⴝ", "Ⴞ", "Ⴟ",
    "Ⴠ", "Ⴡ", "Ⴢ", "Ⴣ", "Ⴤ", "Ⴥ", "Ⴧ", "Ⴭ", "Ꭰ", "Ꭱ", "Ꭲ", "Ꭳ", "Ꭴ", "Ꭵ", "Ꭶ", "Ꭷ",
    "Ꭸ", "Ꭹ", "Ꭺ", "Ꭻ", "Ꭼ", "Ꭽ", "Ꭾ", "Ꭿ", "Ὰ", "Ά", "Ὲ", "Έ", "Ὴ", "Ή", "Ὶ", "Ί",
    "Ὺ", "Ύ", "Ὸ", "Ό", "Ὼ", "Ώ", "Ɥ", "Ɦ", "Ɜ", "Ɡ", "Ɬ", "Ɪ", "Ꭓ",
    "Ɤ">>

LowerFar ==
  <<"U+0253", "U+0254", "U+0256", "U+0257", "U+0259", "U+025B", "U+0260", "U+0263",
    "U+0269", "U+0268", "U+026F", "U+0272", "U+0275", "U+037B", "U+037C", "U+037D",
    "U+2D00", "U+2D01", "U+2D02", "U+2D03", "U+2D04", "U+2D05", "U+2D06", "U+2D07",
    "U+2D08", "U+2D09", "U+2D0A", "U+2D0B", "U+2D0C", "U+2D0D", "U+2D0E", "U+2D0F",
    "U+2D10", "U+2D11", "U+2D12", "U+2D13", "U+2D14", "U+2D15", "U+2D16", "U+2D17",
    "U+2D18", "U+2D19", "U+2D1A", "U+2D1B", "U+2D1C", "U+2D1D", "U+2D1E", "U+2D1F",
    "U+2D20", "U+2D21", "U+2D22", "U+2D23", "U+2D24", "U+2D25", "U+2D27", "U+2D2D",
    "U+AB70", "U+AB71", "U+AB72", "U+AB73", "U+AB74", "U+AB75", "U+AB76", "U+AB77",
    "U+AB78", "U+AB79", "U+AB7A", "U+AB7B", "U+AB7C", "U+AB7D", "U+AB7E", "U+AB7F",
    "U+1F70", "U+1F71", "U+1F72", "U+1F73", "U+1F74", "U+1F75", "U+1F76", "U+1F77",
    "U+1F7A", "U+1F7B", "U+1F78", "U+1F79", "U+1F7C", "U+1F7D", "U+0265", "U+0266",
    "U+025C", "U+0261", "U+026C", "U+026A", "U+AB53",
    "U+0264">>

CasedUpper == UpperSeq \o UpperLatin1 \o UpperUnicode \o UpperFar

CasedLower == LowerSeq \o LowerLatin1 \o LowerUnicode \o LowerFar

\* the lower-case mapping as a function on the characters that have one
LowerOf ==
  [ch \in Range(CasedUpper) |->
     CasedLower[CHOOSE i \in DOMAIN CasedUpper : CasedUpper[i] = ch]]

LowerChar(ch) == IF ch \in DOMAIN LowerOf THEN LowerOf[ch] ELSE ch

\* The characters with the property Cased that are not Case_Ignorable, and
\* the characters with the property Case_Ignorable: the two classes the
\* Final_Sigma condition of the lower-case mapping looks at.
CasedLetter ==
  {"A", "B", "C", "D", "E", "F", "G", "H", "I", "J", "K", "L", "M", "N", "O", "P",
   "Q", "R", "S", "T", "U", "V", "W", "X", "Y", "Z", "a", "b", "c", "d", "e", "f",
   "g", "h", "i", "j", "k", "l", "m", "n", "o", "p", "q", "r", "s", "t", "u", "v",
   "w", "x", "y", "z", "ª", "µ", "º", "À", "Á", "Â", "Ã", "Ä", "Å", "Æ", "Ç", "È",
   "É", "Ê", "Ë", "Ì", "Í", "Î", "Ï", "Ð", "Ñ", "Ò", "Ó", "Ô", "Õ", "Ö", "Ø", "Ù",
   "Ú", "Û", "Ü", "Ý", "Þ", "ß", "à", "á", "â", "ã", "ä", "å", "æ", "ç", "è", "é",
   "ê", "ë", "ì", "í", "î", "ï", "ð", "ñ", "ò", "ó", "ô", "õ", "ö", "ø", "ù", "ú",
   "û", "ü", "ý", "þ", "ÿ", "ƀ", "Ɓ", "Ƃ", "ƃ", "Ƅ", "ƅ", "Ɔ", "Ƈ", "ƈ", "Ɖ", "Ɗ",
   "Ƌ", "ƌ", "ƍ", "Ǝ", "Ə", "Ɛ", "Ƒ", "ƒ", "Ɠ", "Ɣ", "ƕ", "Ɩ", "Ɨ", "Ƙ", "ƙ", "ƚ",
   "ƛ", "Ɯ", "Ɲ", "ƞ", "Ɵ", "Ơ", "ơ", "Ƣ", "ƣ", "Ƥ", "ƥ", "Ʀ", "Ƨ", "ƨ", "Ʃ", "ƪ",
   "ƫ", "Ƭ", "ƭ", "Ʈ", "Ư", "ư", "Ʊ", "Ʋ", "Ƴ", "ƴ", "Ƶ", "ƶ", "Ʒ", "Ƹ", "ƹ", "ƺ",
   "Ƽ", "ƽ", "ƾ", "ƿ", "Ǆ", "ǅ", "ǆ", "Ǉ", "ǈ", "ǉ", "Ǌ", "ǋ", "ǌ", "Ǎ", "ǎ", "Ǐ",
   "ǐ", "Ǒ", "ǒ", "Ǔ", "ǔ", "Ǖ", "ǖ", "Ǘ", "ǘ", "Ǚ", "ǚ", "Ǜ", "ǜ", "ǝ", "Ǟ", "ǟ",
   "Ǡ", "ǡ", "Ǣ", "ǣ", "Ǥ", "ǥ", "Ǧ", "ǧ", "Ǩ", "ǩ", "Ǫ", "ǫ", "Ǭ", "ǭ", "Ǯ", "ǯ",
   "ǰ", "Ǳ", "ǲ", "ǳ", "Ǵ", "ǵ", "Ƕ", "Ƿ", "Ǹ", "ǹ", "Ǻ", "ǻ", "Ǽ", "ǽ", "Ǿ", "ǿ",
   "ʀ", "ʁ", "ʂ", "ʃ", "ʄ", "ʅ", "ʆ", "ʇ", "ʈ", "ʉ", "ʊ", "ʋ", "ʌ", "ʍ", "ʎ", "ʏ",
   "ʐ", "ʑ", "ʒ", "ʓ", "ʖ", "ʗ", "ʘ", "ʙ", "ʚ", "ʛ", "ʜ", "ʝ", "ʞ", "ʟ", "ʠ",
   "ʡ", "ʢ", "ʣ", "ʤ", "ʥ", "ʦ", "ʧ", "ʨ", "ʩ", "ʪ", "ʫ", "ʬ", "ʭ", "ʮ", "ʯ", "Ά",
   "Έ", "Ή", "Ί", "Ό", "Ύ", "Ώ", "ΐ", "Α", "Β", "Γ", "Δ", "Ε", "Ζ", "Η", "Θ", "Ι",
   "Κ", "Λ", "Μ", "Ν", "Ξ", "Ο", "Π", "Ρ", "Σ", "Τ", "Υ", "Φ", "Χ", "Ψ", "Ω", "Ϊ",
   "Ϋ", "ά", "έ", "ή", "ί", "ΰ", "α", "β", "γ", "δ", "ε", "ζ", "η", "θ", "ι", "κ",
   "λ", "μ", "ν", "ξ", "ο", "π", "ρ", "ς", "σ", "τ", "υ", "φ", "χ", "ψ", "ω", "ϊ",
   "ϋ", "ό", "ύ", "ώ", "Ϗ", "ϐ", "ϑ", "ϒ", "ϓ", "ϔ", "ϕ", "ϖ", "ϗ", "Ϙ", "ϙ", "Ϛ",
   "ϛ", "Ϝ", "ϝ", "Ϟ", "ϟ", "Ϡ", "ϡ", "Ϣ", "ϣ", "Ϥ", "ϥ", "Ϧ", "ϧ", "Ϩ", "ϩ", "Ϫ",
   "ϫ", "Ϭ", "ϭ", "Ϯ", "ϯ", "ϰ", "ϱ", "ϲ", "ϳ", "ϴ", "ϵ", "Ϸ", "ϸ", "Ϲ", "Ϻ", "ϻ",
   "ϼ", "Ͻ", "Ͼ", "Ͽ", "Ҁ", "ҁ", "Ҋ", "ҋ", "Ҍ", "ҍ", "Ҏ", "ҏ", "Ґ", "ґ", "Ғ", "ғ",
   "Ҕ", "ҕ", "Җ", "җ", "Ҙ", "ҙ", "Қ", "қ", "Ҝ", "ҝ", "Ҟ", "ҟ", "Ҡ", "ҡ", "Ң", "ң",
   "Ҥ", "ҥ", "Ҧ", "ҧ", "Ҩ", "ҩ", "Ҫ", "ҫ", "Ҭ", "ҭ", "Ү", "ү", "Ұ", "ұ", "Ҳ", "ҳ",
   "Ҵ", "ҵ", "Ҷ", "ҷ", "Ҹ", "ҹ", "Һ", "һ", "Ҽ", "ҽ", "Ҿ", "ҿ", "Ӏ", "Ӂ", "ӂ", "Ӄ",
   "ӄ", "Ӆ", "ӆ", "Ӈ", "ӈ", "Ӊ", "ӊ", "Ӌ", "ӌ", "Ӎ", "ӎ", "ӏ", "Ӑ", "ӑ", "Ӓ", "ӓ",
   "Ӕ", "ӕ", "Ӗ", "ӗ", "Ә", "ә", "Ӛ", "ӛ", "Ӝ", "ӝ", "Ӟ", "ӟ", "Ӡ", "ӡ", "Ӣ", "ӣ",
   "Ӥ", "ӥ", "Ӧ", "ӧ", "Ө", "ө", "Ӫ", "ӫ", "Ӭ", "ӭ", "Ӯ", "ӯ", "Ӱ", "ӱ", "Ӳ", "ӳ",
   "Ӵ", "ӵ", "Ӷ", "ӷ", "Ӹ", "ӹ", "Ӻ", "ӻ", "Ӽ", "ӽ", "Ӿ", "ӿ", "ր", "ց", "ւ", "փ",
   "ք", "օ", "ֆ", "և", "ֈ", "Ⴀ", "Ⴁ", "Ⴂ", "Ⴃ", "Ⴄ", "Ⴅ", "Ⴆ", "Ⴇ", "Ⴈ", "Ⴉ", "Ⴊ",
   "Ⴋ", "Ⴌ", "Ⴍ", "Ⴎ", "Ⴏ", "Ⴐ", "Ⴑ", "Ⴒ", "Ⴓ", "Ⴔ", "Ⴕ", "Ⴖ", "Ⴗ", "Ⴘ", "Ⴙ", "Ⴚ",
   "Ⴛ", "Ⴜ", "Ⴝ", "Ⴞ", "Ⴟ", "Ⴠ", "Ⴡ", "Ⴢ", "Ⴣ", "Ⴤ", "Ⴥ", "Ⴧ", "Ⴭ", "ა", "ბ", "გ",
   "დ", "ე", "ვ", "ზ", "თ", "ი", "კ", "ლ", "მ", "ნ", "ო", "პ", "ჟ", "რ", "ს", "ტ",
   "უ", "ფ", "ქ", "ღ", "ყ", "შ", "ჩ", "ც", "ძ", "წ", "ჭ", "ხ", "ჯ", "ჰ", "ჱ", "ჲ",
   "ჳ", "ჴ", "ჵ", "ჶ", "ჷ", "ჸ", "ჹ", "ჺ", "ჽ", "ჾ", "ჿ", "Ꭰ", "Ꭱ", "Ꭲ", "Ꭳ", "Ꭴ",
   "Ꭵ", "Ꭶ", "Ꭷ", "Ꭸ", "Ꭹ", "Ꭺ", "Ꭻ", "Ꭼ", "Ꭽ", "Ꭾ", "Ꭿ", "Ꮀ", "Ꮁ", "Ꮂ", "Ꮃ", "Ꮄ",
   "Ꮅ", "Ꮆ", "Ꮇ", "Ꮈ", "Ꮉ", "Ꮊ", "Ꮋ", "Ꮌ", "Ꮍ", "Ꮎ", "Ꮏ", "Ꮐ", "Ꮑ", "Ꮒ", "Ꮓ", "Ꮔ",
   "Ꮕ", "Ꮖ", "Ꮗ", "Ꮘ", "Ꮙ", "Ꮚ", "Ꮛ", "Ꮜ", "Ꮝ", "Ꮞ", "Ꮟ", "Ꮠ", "Ꮡ", "Ꮢ", "Ꮣ", "Ꮤ",
   "Ꮥ", "Ꮦ", "Ꮧ", "Ꮨ", "Ꮩ", "Ꮪ", "Ꮫ", "Ꮬ", "Ꮭ", "Ꮮ", "Ꮯ", "Ꮰ", "Ꮱ", "Ꮲ", "Ꮳ", "Ꮴ",
   "Ꮵ", "Ꮶ", "Ꮷ", "Ꮸ", "Ꮹ", "Ꮺ", "Ꮻ", "Ꮼ", "Ꮽ", "Ꮾ", "Ꮿ", "Ᏸ", "Ᏹ", "Ᏺ", "Ᏻ", "Ᏼ",
   "Ᏽ", "ᏸ", "ᏹ", "ᏺ", "ᏻ", "ᏼ", "ᏽ", "ᲀ", "ᲁ", "ᲂ", "ᲃ", "ᲄ", "ᲅ", "ᲆ", "ᲇ", "ᲈ",
   "Ა", "Ბ", "Გ", "Დ", "Ე", "Ვ", "Ზ", "Თ", "Ი", "Კ", "Ლ", "Მ", "Ნ", "Ო", "Პ", "Ჟ",
   "Რ", "Ს", "Ტ", "Უ", "Ფ", "Ქ", "Ღ", "Ყ", "Შ", "Ჩ", "Ც", "Ძ", "Წ", "Ჭ", "Ხ", "Ჯ",
   "Ჰ", "Ჱ", "Ჲ", "Ჳ", "Ჴ", "Ჵ", "Ჶ", "Ჷ", "Ჸ", "Ჹ", "Ჺ", "Ჽ", "Ჾ", "Ჿ", "ᶀ", "ᶁ",
   "ᶂ", "ᶃ", "ᶄ", "ᶅ", "ᶆ", "ᶇ", "ᶈ", "ᶉ", "ᶊ", "ᶋ", "ᶌ", "ᶍ", "ᶎ", "ᶏ", "ᶐ", "ᶑ",
   "ᶒ", "ᶓ", "ᶔ", "ᶕ", "ᶖ", "ᶗ", "ᶘ", "ᶙ", "ᶚ", "Ẁ", "ẁ", "Ẃ", "ẃ", "Ẅ", "ẅ", "Ẇ",
   "ẇ", "Ẉ", "ẉ", "Ẋ", "ẋ", "Ẍ", "ẍ", "Ẏ", "ẏ", "Ẑ", "ẑ", "Ẓ", "ẓ", "Ẕ", "ẕ", "ẖ",
   "ẗ", "ẘ", "ẙ", "ẚ", "ẛ", "ẜ", "ẝ", "ẞ", "ẟ", "Ạ", "ạ", "Ả", "ả", "Ấ", "ấ", "Ầ",
   "ầ", "Ẩ", "ẩ", "Ẫ", "ẫ", "Ậ", "ậ", "Ắ", "ắ", "Ằ", "ằ", "Ẳ", "ẳ", "Ẵ", "ẵ", "Ặ",
   "ặ", "Ẹ", "ẹ", "Ẻ", "ẻ", "Ẽ", "ẽ", "Ế", "ế", "Ề", "ề", "Ể", "ể", "Ễ", "ễ", "Ệ",
   "ệ", "Ỉ", "ỉ", "Ị", "ị", "Ọ", "ọ", "Ỏ", "ỏ", "Ố", "ố", "Ồ", "ồ", "Ổ", "ổ", "Ỗ",
   "ỗ", "Ộ", "ộ", "Ớ", "ớ", "Ờ", "ờ", "Ở", "ở", "Ỡ", "ỡ", "Ợ", "ợ", "Ụ", "ụ", "Ủ",
   "ủ", "Ứ", "ứ", "Ừ", "ừ", "Ử", "ử", "Ữ", "ữ", "Ự", "ự", "Ỳ", "ỳ", "Ỵ", "ỵ", "Ỷ",
   "ỷ", "Ỹ", "ỹ", "Ỻ", "ỻ", "Ỽ", "ỽ", "Ỿ", "ỿ", "ᾀ", "ᾁ", "ᾂ", "ᾃ", "ᾄ", "ᾅ", "ᾆ",
   "ᾇ", "ᾈ", "ᾉ", "ᾊ", "ᾋ", "ᾌ", "ᾍ", "ᾎ", "ᾏ", "ᾐ", "ᾑ", "ᾒ", "ᾓ", "ᾔ", "ᾕ", "ᾖ",
   "ᾗ", "ᾘ", "ᾙ", "ᾚ", "ᾛ", "ᾜ", "ᾝ", "ᾞ", "ᾟ", "ᾠ", "ᾡ", "ᾢ", "ᾣ", "ᾤ", "ᾥ", "ᾦ",
   "ᾧ", "ᾨ", "ᾩ", "ᾪ", "ᾫ", "ᾬ", "ᾭ", "ᾮ", "ᾯ", "ᾰ", "ᾱ", "ᾲ", "ᾳ", "ᾴ", "ᾶ", "ᾷ",
   "Ᾰ", "Ᾱ", "Ὰ", "Ά", "ᾼ", "ι", "ῂ", "ῃ", "ῄ", "ῆ", "ῇ", "Ὲ", "Έ", "Ὴ", "Ή", "ῌ",
   "ῐ", "ῑ", "ῒ", "ΐ", "ῖ", "ῗ", "Ῐ", "Ῑ", "Ὶ", "Ί", "ῠ", "ῡ", "ῢ", "ΰ", "ῤ", "ῥ",
   "ῦ", "ῧ", "Ῠ", "Ῡ", "Ὺ", "Ύ", "Ῥ", "ῲ", "ῳ", "ῴ", "ῶ", "ῷ", "Ὸ", "Ό", "Ὼ", "Ώ",
   "ῼ", "Ↄ", "ↄ", "Ⓐ", "Ⓑ", "Ⓒ", "Ⓓ", "Ⓔ", "Ⓕ", "Ⓖ", "Ⓗ", "Ⓘ", "Ⓙ", "Ⓚ", "Ⓛ", "Ⓜ",
   "Ⓝ", "Ⓞ", "Ⓟ", "Ⓠ", "Ⓡ", "Ⓢ", "Ⓣ", "Ⓤ", "Ⓥ", "Ⓦ", "Ⓧ", "Ⓨ", "Ⓩ", "ⓐ", "ⓑ", "ⓒ",
   "ⓓ", "ⓔ", "ⓕ", "ⓖ", "ⓗ", "ⓘ", "ⓙ", "ⓚ", "ⓛ", "ⓜ", "ⓝ", "ⓞ", "ⓟ", "ⓠ", "ⓡ", "ⓢ",
   "ⓣ", "ⓤ", "ⓥ", "ⓦ", "ⓧ", "ⓨ", "ⓩ", "Ⲁ", "ⲁ", "Ⲃ", "ⲃ", "Ⲅ", "ⲅ", "Ⲇ", "ⲇ", "Ⲉ",
   "ⲉ", "Ⲋ", "ⲋ", "Ⲍ", "ⲍ", "Ⲏ", "ⲏ", "Ⲑ", "ⲑ", "Ⲓ", "ⲓ", "Ⲕ", "ⲕ", "Ⲗ", "ⲗ", "Ⲙ",
   "ⲙ", "Ⲛ", "ⲛ", "Ⲝ", "ⲝ", "Ⲟ", "ⲟ", "Ⲡ", "ⲡ", "Ⲣ", "ⲣ", "Ⲥ", "ⲥ", "Ⲧ", "ⲧ", "Ⲩ",
   "ⲩ", "Ⲫ", "ⲫ", "Ⲭ", "ⲭ", "Ⲯ", "ⲯ", "Ⲱ", "ⲱ", "Ⲳ", "ⲳ", "Ⲵ", "ⲵ", "Ⲷ", "ⲷ", "Ⲹ",
   "ⲹ", "Ⲻ", "ⲻ", "Ⲽ", "ⲽ", "Ⲿ", "ⲿ", "Ⳁ", "ⳁ", "Ⳃ", "ⳃ", "Ⳅ", "ⳅ", "Ⳇ", "ⳇ", "Ⳉ",
   "ⳉ", "Ⳋ", "ⳋ", "Ⳍ", "ⳍ", "Ⳏ", "ⳏ", "Ⳑ", "ⳑ", "Ⳓ", "ⳓ", "Ⳕ", "ⳕ", "Ⳗ", "ⳗ", "Ⳙ",
   "ⳙ", "Ⳛ", "ⳛ", "Ⳝ", "ⳝ", "Ⳟ", "ⳟ", "Ⳡ", "ⳡ", "Ⳣ", "ⳣ", "ⳤ", "Ⳬ", "ⳬ", "Ⳮ", "ⳮ",
   "Ⳳ", "ⳳ", "Ꚁ", "ꚁ", "Ꚃ", "ꚃ", "Ꚅ", "ꚅ", "Ꚇ", "ꚇ", "Ꚉ", "ꚉ", "Ꚋ", "ꚋ", "Ꚍ", "ꚍ",
   "Ꚏ", "ꚏ", "Ꚑ", "ꚑ", "Ꚓ", "ꚓ", "Ꚕ", "ꚕ", "Ꚗ", "ꚗ", "Ꚙ", "ꚙ", "Ꚛ", "ꚛ", "Ꞁ", "ꞁ",
   "Ꞃ", "ꞃ", "Ꞅ", "ꞅ", "Ꞇ", "ꞇ", "Ꞌ", "ꞌ", "Ɥ", "ꞎ", "Ꞑ", "ꞑ", "Ꞓ", "ꞓ", "ꞔ", "ꞕ",
   "Ꞗ", "ꞗ", "Ꞙ", "ꞙ", "Ꞛ", "ꞛ", "Ꞝ", "ꞝ", "Ꞟ", "ꞟ", "Ꞡ", "ꞡ", "Ꞣ", "ꞣ", "Ꞥ", "ꞥ",
   "Ꞧ", "ꞧ", "Ꞩ", "ꞩ", "Ɦ", "Ɜ", "Ɡ", "Ɬ", "Ɪ", "ꞯ", "Ʞ", "Ʇ", "Ʝ", "Ꭓ", "Ꞵ", "ꞵ",
   "Ꞷ", "ꞷ", "Ꞹ", "ꞹ", "Ꞻ", "ꞻ", "Ꞽ", "ꞽ", "Ꞿ", "ꞿ", "Ꟁ", "ꟁ", "Ꟃ", "ꟃ", "Ꞔ", "Ʂ",
   "Ᶎ", "Ꟈ", "ꟈ", "Ꟊ", "ꟊ", "Ꟑ", "ꟑ", "ꟓ", "ꟕ", "Ꟗ", "ꟗ", "Ꟙ", "ꟙ", "Ꟶ", "ꟶ", "ꟺ",
   "ꮀ", "ꮁ", "ꮂ", "ꮃ", "ꮄ", "ꮅ", "ꮆ", "ꮇ", "ꮈ", "ꮉ", "ꮊ", "ꮋ", "ꮌ", "ꮍ", "ꮎ", "ꮏ",
   "ꮐ", "ꮑ", "ꮒ", "ꮓ", "ꮔ", "ꮕ", "ꮖ", "ꮗ", "ꮘ", "ꮙ", "ꮚ", "ꮛ", "ꮜ", "ꮝ", "ꮞ", "ꮟ",
   "ꮠ", "ꮡ", "ꮢ", "ꮣ", "ꮤ", "ꮥ", "ꮦ", "ꮧ", "ꮨ", "ꮩ", "ꮪ", "ꮫ", "ꮬ", "ꮭ", "ꮮ", "ꮯ",
   "ꮰ", "ꮱ", "ꮲ", "ꮳ", "ꮴ", "ꮵ", "ꮶ", "ꮷ", "ꮸ", "ꮹ", "ꮺ", "ꮻ", "ꮼ", "ꮽ", "ꮾ", "ꮿ",
    "Ᲊ", "ᲊ", "Ɤ", "Ꟍ", "ꟍ", "꟎", "꟏", "꟒", "꟔", "Ꟛ", "ꟛ", "Ƛ"}

CaseIgnorable ==
  {"'", ".", ":", "^", "¨", "­", "¯", "´", "·", "¸", "ʰ", "ʱ", "ʲ", "ʳ", "ʴ", "ʵ",
   "ʶ", "ʷ", "ʸ", "ʹ", "ʺ", "ʻ", "ʼ", "ʽ", "ʾ", "ʿ", "ˀ", "ˁ", "˂", "˃", "˄", "˅",
   "ˆ", "ˇ", "ˈ", "ˉ", "ˊ", "ˋ", "ˌ", "ˍ", "ˎ", "ˏ", "ː", "ˑ", "˒", "˓", "˔", "˕",
   "˖", "˗", "˘", "˙", "˚", "˛", "˜", "˝", "˞", "˟", "ˠ", "ˡ", "ˢ", "ˣ", "ˤ", "˥",
   "˦", "˧", "˨", "˩", "˪", "˫", "ˬ", "˭", "ˮ", "˯", "˰", "˱", "˲", "˳", "˴", "˵",
   "˶", "˷", "˸", "˹", "˺", "˻", "˼", "˽", "˾", "˿", "΄", "΅", "·", "҃", "҄", "҅",
   "҆", "҇", "҈", "҉", "֑", "֒", "֓", "֔", "֕", "֖", "֗", "֘", "֙", "֚", "֛", "֜",
   "֝", "֞", "֟", "֠", "֡", "֢", "֣", "֤", "֥", "֦", "֧", "֨", "֩", "֪", "֫", "֬",
   "֭", "֮", "֯", "ְ", "ֱ", "ֲ", "ֳ", "ִ", "ֵ", "ֶ", "ַ", "ָ", "ֹ", "ֺ", "ֻ", "ּ",
   "ֽ", "ֿ", "ׁ", "ׂ", "ׄ", "ׅ", "ׇ", "״", "ۖ", "ۗ", "ۘ", "ۙ", "ۚ", "ۛ", "ۜ", "۝",
   "۟", "۠", "ۡ", "ۢ", "ۣ", "ۤ", "ۥ", "ۦ", "ۧ", "ۨ", "۪", "۫", "۬", "ۭ", "ަ", "ާ",
   "ި", "ީ", "ު", "ޫ", "ެ", "ޭ", "ޮ", "ޯ", "ް", "߫", "߬", "߭", "߮", "߯", "߰", "߱",
   "߲", "߳", "ߴ", "ߵ", "ߺ", "߽", "࢈", "࢐", "࢑", "࢘", "࢙", "࢚", "࢛", "࢜", "࢝", "࢞",
   "࢟", "ࣉ", "࣊", "࣋", "࣌", "࣍", "࣎", "࣏", "࣐", "࣑", "࣒", "࣓", "ࣔ", "ࣕ", "ࣖ", "ࣗ",
   "ࣘ", "ࣙ", "ࣚ", "ࣛ", "ࣜ", "ࣝ", "ࣞ", "ࣟ", "࣠", "࣡", "࣢", "ࣣ", "ࣤ", "ࣥ", "ࣦ", "ࣧ",
   "ࣨ", "ࣩ", "࣪", "࣫", "࣬", "࣭", "࣮", "࣯", "ࣰ", "ࣱ", "ࣲ", "ࣳ", "ࣴ", "ࣵ", "ࣶ", "ࣷ",
   "ࣸ", "ࣹ", "ࣺ", "ࣻ", "ࣼ", "ࣽ", "ࣾ", "ࣿ", "ঁ", "়", "ু", "ূ", "ৃ", "ৄ", "্", "ৢ",
   "ৣ", "৾", "ઁ", "ં", "઼", "ુ", "ૂ", "ૃ", "ૄ", "ૅ", "ે", "ૈ", "્", "ૢ", "ૣ", "ૺ",
   "ૻ", "ૼ", "૽", "૾", "૿", "ஂ", "ீ", "்", "ಁ", "಼", "ಿ", "ೆ", "ೌ", "್", "ೢ", "ೣ",
   "ඁ", "්", "ි", "ී", "ු", "ූ", "ັ", "ິ", "ີ", "ຶ", "ື", "ຸ", "ູ", "຺", "ົ", "ຼ",
   "ໆ", "່", "້", "໊", "໋", "໌", "ໍ", "ྀ", "ཱྀ", "ྂ", "ྃ", "྄", "྆", "྇", "ྍ", "ྎ",
   "ྏ", "ྐ", "ྑ", "ྒ", "ྒྷ", "ྔ", "ྕ", "ྖ", "ྗ", "ྙ", "ྚ", "ྛ", "ྜ", "ྜྷ", "ྞ", "ྟ",
   "ྠ", "ྡ", "ྡྷ", "ྣ", "ྤ", "ྥ", "ྦ", "ྦྷ", "ྨ", "ྩ", "ྪ", "ྫ", "ྫྷ", "ྭ", "ྮ", "ྯ",
   "ྰ", "ྱ", "ྲ", "ླ", "ྴ", "ྵ", "ྶ", "ྷ", "ྸ", "ྐྵ", "ྺ", "ྻ", "ྼ", "࿆", "ႂ", "ႅ",
   "ႆ", "ႍ", "ႝ", "ჼ", "឴", "឵", "ិ", "ី", "ឹ", "ឺ", "ុ", "ូ", "ួ", "ំ", "៉", "៊",
   "់", "៌", "៍", "៎", "៏", "័", "៑", "្", "៓", "ៗ", "៝", "ᢅ", "ᢆ", "ᢩ", "ᪧ", "᪰",
   "᪱", "᪲", "᪳", "᪴", "᪵", "᪶", "᪷", "᪸", "᪹", "᪺", "᪻", "᪼", "᪽", "᪾", "ᪿ", "ᫀ",
   "᫁", "᫂", "᫃", "᫄", "᫅", "᫆", "᫇", "᫈", "᫉", "᫊", "᫋", "ᫌ", "ᫍ", "ᫎ", "ᮀ", "ᮁ",
   "ᮢ", "ᮣ", "ᮤ", "ᮥ", "ᮨ", "ᮩ", "᮫", "ᮬ", "ᮭ", "᯦", "ᯨ", "ᯩ", "ᯭ", "ᯯ", "ᯰ", "ᯱ",
   "᳐", "᳑", "᳒", "᳔", "᳕", "᳖", "᳗", "᳘", "᳙", "᳚", "᳛", "᳜", "᳝", "᳞", "᳟", "᳠",
   "᳢", "᳣", "᳤", "᳥", "᳦", "᳧", "᳨", "᳭", "᳴", "᳸", "᳹", "ᶛ", "ᶜ", "ᶝ", "ᶞ", "ᶟ",
   "ᶠ", "ᶡ", "ᶢ", "ᶣ", "ᶤ", "ᶥ", "ᶦ", "ᶧ", "ᶨ", "ᶩ", "ᶪ", "ᶫ", "ᶬ", "ᶭ", "ᶮ", "ᶯ",
   "ᶰ", "ᶱ", "ᶲ", "ᶳ", "ᶴ", "ᶵ", "ᶶ", "ᶷ", "ᶸ", "ᶹ", "ᶺ", "ᶻ", "ᶼ", "ᶽ", "ᶾ", "ᶿ",
   "᷀", "᷁", "᷂", "᷃", "᷄", "᷅", "᷆", "᷇", "᷈", "᷉", "᷊", "᷋", "᷌", "᷍", "᷎", "᷏",
   "᷐", "᷑", "᷒", "ᷓ", "ᷔ", "ᷕ", "ᷖ", "ᷗ", "ᷘ", "ᷙ", "ᷚ", "ᷛ", "ᷜ", "ᷝ", "ᷞ", "ᷟ",
   "ᷠ", "ᷡ", "ᷢ", "ᷣ", "ᷤ", "ᷥ", "ᷦ", "ᷧ", "ᷨ", "ᷩ", "ᷪ", "ᷫ", "ᷬ", "ᷭ", "ᷮ", "ᷯ",
   "ᷰ", "ᷱ", "ᷲ", "ᷳ", "ᷴ", "᷵", "᷶", "᷷", "᷸", "᷹", "᷺", "᷻", "᷼", "᷽", "᷾", "᷿",
   "᾽", "᾿", "῀", "῁", "῍", "῎", "῏", "῝", "῞", "῟", "῭", "΅", "`", "´", "῾", "ₐ",
   "ₑ", "ₒ", "ₓ", "ₔ", "ₕ", "ₖ", "ₗ", "ₘ", "ₙ", "ₚ", "ₛ", "ₜ", "⃐", "⃑", "⃒", "⃓",
   "⃔", "⃕", "⃖", "⃗", "⃘", "⃙", "⃚", "⃛", "⃜", "⃝", "⃞", "⃟", "⃠", "⃡", "⃢", "⃣",
   "⃤", "⃥", "⃦", "⃧", "⃨", "⃩", "⃪", "⃫", "⃬", "⃭", "⃮", "⃯", "⃰", "⳯", "⳰", "⳱",
   "ⷠ", "ⷡ", "ⷢ", "ⷣ", "ⷤ", "ⷥ", "ⷦ", "ⷧ", "ⷨ", "ⷩ", "ⷪ", "ⷫ", "ⷬ", "ⷭ", "ⷮ", "ⷯ",
   "ⷰ", "ⷱ", "ⷲ", "ⷳ", "ⷴ", "ⷵ", "ⷶ", "ⷷ", "ⷸ", "ⷹ", "ⷺ", "ⷻ", "ⷼ", "ⷽ", "ⷾ", "ⷿ",
   "゙", "゚", "゛", "゜", "ゝ", "ゞ", "ー", "ヽ", "ヾ", "ꓸ", "ꓹ", "ꓺ", "ꓻ", "ꓼ", "ꓽ", "ꚜ",
   "ꚝ", "ꚞ", "ꚟ", "꛰", "꛱", "ꞈ", "꞉", "꞊", "ꟲ", "ꟳ", "ꟴ", "ꟸ", "ꟹ", "꣄", "ꣅ", "꣠",
   "꣡", "꣢", "꣣", "꣤", "꣥", "꣦", "꣧", "꣨", "꣩", "꣪", "꣫", "꣬", "꣭", "꣮", "꣯", "꣰",
   "꣱", "ꣿ", "ꦀ", "ꦁ", "ꦂ", "꦳", "ꦶ", "ꦷ", "ꦸ", "ꦹ", "ꦼ", "ꦽ", "ꧏ", "ꧥ", "ꧦ", "ꪰ",
   "ꪲ", "ꪳ", "ꪴ", "ꪷ", "ꪸ", "ꪾ", "꪿", "꫁", "ꫝ", "ꫬ", "ꫭ", "ꫳ", "ꫴ", "꫶", "ꯥ", "ꯨ",
   "꯭", "﮲", "﮳", "﮴", "﮵", "﮶", "﮷", "﮸", "﮹", "﮺", "﮻", "﮼", "﮽", "﮾", "﮿", "﯀",
   "﯁", "﯂", "﻿", "ﾞ", "ﾟ", "￣", "￹", "￺", "￻",
    "ࢗ", "໎",
   "᫏", "᫐", "᫑", "᫒", "᫓", "᫔", "᫕", "᫖", "᫗", "᫘", "᫙", "᫚", "᫛", "᫜", "᫝", "᫠",
   "᫡", "᫢", "᫣", "᫤", "᫥", "᫦", "᫧", "᫨", "᫩", "᫪", "᫫", "꟱"}

\* Position of the first character of s at or after i, going by step d (1 or
\* -1), that is not Case_Ignorable; a position outside s when there is none.
RECURSIVE SkipIgnorable(_, _, _)
SkipIgnorable(s, i, d) ==
  IF i < 1 \/ i > Len(s) THEN i
  ELSE IF s[i] \in CaseIgnorable THEN SkipIgnorable(s, i + d, d) ELSE i

\* Final_Sigma: the capital sigma at s[i] follows a cased letter and is not
\* followed by one, case-ignorable characters skipped on both sides.
FinalSigma(s, i) ==
  LET b == SkipIgnorable(s, i - 1, -1)
      a == SkipIgnorable(s, i + 1, 1)
  IN /\ b >= 1 /\ s[b] \in CasedLetter
     /\ ~(a <= Len(s) /\ s[a] \in CasedLetter)

\* String.prototype.toLowerCase
ToLowerCase(s) ==
  [i \in DOMAIN s |-> IF s[i] = "Σ" /\ FinalSigma(s, i) THEN "ς" ELSE LowerChar(s[i])]

\* the blank of the slug hook's regular expressions
IsSpace(ch) == ch = " "

\* WhiteSpace and LineTerminator of ECMAScript among the characters a string
\* of a module can hold: tab, line feed, vertical tab (U+000B), form feed,
\* carriage return, space, no-break space (U+00A0), ogham space mark
\* (U+1680) and zero width no-break space (U+FEFF)
WhiteSpace == {"\t", "\n", "", "\f", "\r", " ", " ", " ", "﻿"}

IsWhiteSpace(ch) == ch \in WhiteSpace

\* The two character classes of the slug hook's regular expressions:
\* "nonword" is [^\w ] and "space" is the blank.
InClass(cls, ch) ==
  IF cls = "space" THEN IsSpace(ch) ELSE ~IsWordChar(ch) /\ ~IsSpace(ch)

\* Length of the longest run of characters of class cls that starts at s[i]
\* (a greedy match of cls+ at position i; 0 when s[i] is not in the class).
RECURSIVE RunLen(_, _, _)
RunLen(s, i, cls) ==
  IF i > Len(s) THEN 0
  ELSE IF ~InClass(cls, s[i]) THEN 0 ELSE 1 + RunLen(s, i + 1, cls)

\* s.replace(/cls+/g, rep): scanning from position i, every maximal run of
\* characters of class cls is replaced by rep, everything else is copied.
RECURSIVE ReplaceRuns(_, _, _, _)
ReplaceRuns(s, i, cls, rep) ==
  IF i > Len(s) THEN <<>>
  ELSE LET n == RunLen(s, i, cls)
       IN IF n > 0 THEN rep \o ReplaceRuns(s, i + n, cls, rep)
                   ELSE <<s[i]>> \o ReplaceRuns(s, i + 1, cls, rep)

\* String.prototype.trim, as the `trim: true` setter of a schema path applies it
RECURSIVE TrimLeft(_)
TrimLeft(s) == IF s # <<>> /\ IsWhiteSpace(Head(s)) THEN TrimLeft(Tail(s)) ELSE s

RECURSIVE TrimRight(_)
TrimRight(s) ==
  IF s # <<>> /\ IsWhiteSpace(s[Len(s)]) THEN TrimRight(SubSeq(s, 1, Len(s) - 1)) ELSE s

Trim(s) == TrimRight(TrimLeft(s))

-----------------------------------------------------------------------------
(* ProjectSchema.pre('save'): the slug derived from the title.             *)

SlugifyEachSpace(title) ==
  LET lower    == ToLowerCase(title)
      stripped == ReplaceRuns(lower, 1, "nonword", <<>>)
  IN [i \in DOMAIN stripped |-> IF stripped[i] = " " THEN "-" ELSE stripped[i]]

Slugify(title) ==
  LET lower    == ToLowerCase(title)
      stripped == ReplaceRuns(lower, 1, "nonword", <<>>)
  IN ReplaceRuns(stripped, 1, "space", <<"-">>)

-----------------------------------------------------------------------------
(* Bounds of the model and constants of the program.                       *)

MaxProjectIds == 2      \* project documents ever created in one behaviour
MaxContactIds == 2      \* contact documents ever created in one behaviour
HitCap == 1             \* requests per client and window, outside SpecRate
OverLimit == 2          \* requests a client sends beyond the limiter's max

RateMax == 100          \* rateLimit({ max: 100 })
TitleMaxLength == 100   \* maxlength: [100, ...]

Clients == {"c1", "c2"}
UserIds == {1, 2}
Roles == {"admin", "editor"}
CategoryEnum == {"AI", "Mobile", "Web", "UI/UX"}

-----------------------------------------------------------------------------
(* Errors, ErrorResponse and the central error handler.                    *)

NoErr == [name |-> "none", code |-> 0, statusCode |-> 0, message |-> ""]

\* class ErrorResponse extends Error
ErrorResponse(message, statusCode) ==
  [name |-> "Error", code |-> 0, statusCode |-> statusCode, message |-> message]

\* errors raised by mongoose, the MongoDB driver and the JavaScript runtime
CastError == [name |-> "CastError", code |-> 0, statusCode |-> 0,
              message |-> "Cast to ObjectId failed"]
DuplicateKeyError == [name |-> "MongoError", code |-> 11000, statusCode |-> 0,
                      message |-> "E11000 duplicate key error"]
ValidationError(message) ==
  [name |-> "ValidationError", code |-> 0, statusCode |-> 0, message |-> message]
TypeError == [name |-> "TypeError", code |-> 0, statusCode |-> 0,
              message |-> "Cannot read property of null"]

errorHandlerLastTestOnly(err) ==
  LET e0 == [statusCode |-> err.statusCode, message |-> err.message]
      e3 == IF err.name = "ValidationError"
            THEN [statusCode |-> 400, message |-> err.message] ELSE e0
  IN [status  |-> IF e3.statusCode # 0 THEN e3.statusCode ELSE 500,
      success |-> FALSE,
      error   |-> IF e3.message # "" THEN e3.message ELSE "Server Error"]

\* errorHandler(err, req, res, next): the three tests are consecutive ifs, a
\* later one overrides an earlier one; then statusCode || 500, message || 'Server Error'
errorHandler(err) ==
  LET e0 == [statusCode |-> err.statusCode, message |-> err.message]
      e1 == IF err.name = "CastError"
            THEN [statusCode |-> 404, message |-> "Resource not found"] ELSE e0
      e2 == IF err.code = 11000
            THEN [statusCode |-> 400, message |-> "Duplicate field value entered"] ELSE e1
      e3 == IF err.name = "ValidationError"
            THEN [statusCode |-> 400, message |-> err.message] ELSE e2
  IN [status  |-> IF e3.statusCode # 0 THEN e3.statusCode ELSE 500,
      success |-> FALSE,
      error   |-> IF e3.message # "" THEN e3.message ELSE "Server Error"]

-----------------------------------------------------------------------------
(* Tokens, protect and authorize.                                          *)

\* A token as jwt.verify sees it: kind "valid" (good signature, not expired),
\* "expired", "malformed", or "none" for no token at all; uid is the id claim.
NoToken == [kind |-> "none", uid |-> 0]
Token(kind, uid) == [kind |-> kind, uid |-> uid]

\* The Authorization header: scheme "none" (no header), "Bearer" or "Basic"
\* (any value that does not start with 'Bearer'); tok is split(' ')[1].
NoHeader == [scheme |-> "none", tok |-> NoToken]
Bearer(tok) == [scheme |-> "Bearer", tok |-> tok]
Basic == [scheme |-> "Basic", tok |-> NoToken]

NullUser == [id |-> 0, role |-> "null"]

\* User.findById(id): the stored user, or null
FindUser(id) ==
  IF id \in UserIds /\ users[id] # "absent"
  THEN [id |-> id, role |-> users[id]] ELSE NullUser

ExtractTokenCookieFirst(auth, cookie) ==
  IF cookie # NoToken THEN cookie
  ELSE IF auth.scheme = "Bearer" THEN auth.tok
  ELSE NoToken

\* the token protect picks: the Bearer header first, the cookie otherwise
ExtractToken(auth, cookie) ==
  IF auth.scheme = "Bearer" THEN auth.tok
  ELSE IF cookie # NoToken THEN cookie
  ELSE NoToken

\* jwt.verify(token, secret) returns the payload or throws
JwtVerifies(tok) == tok.kind = "valid"

ProtectAcceptsExpired(auth, cookie) ==
  LET token == ExtractToken(auth, cookie)
  IN IF token = NoToken
     THEN [ok |-> FALSE, user |-> NullUser,
           err |-> ErrorResponse("Not authorized to access this route", 401)]
     ELSE IF token.kind = "malformed"
     THEN [ok |-> FALSE, user |-> NullUser,
           err |-> ErrorResponse("Not authorized to access this route", 401)]
     ELSE [ok |-> TRUE, user |-> FindUser(token.uid), err |-> NoErr]

\* exports.protect
protect(auth, cookie) ==
  LET token == ExtractToken(auth, cookie)
  IN IF token = NoToken
     THEN [ok |-> FALSE, user |-> NullUser,
           err |-> ErrorResponse("Not authorized to access this route", 401)]
     ELSE IF ~JwtVerifies(token)
     THEN [ok |-> FALSE, user |-> NullUser,
           err |-> ErrorResponse("Not authorized to access this route", 401)]
     ELSE [ok |-> TRUE, user |-> FindUser(token.uid), err |-> NoErr]

AuthorizeEveryone(roles, user) == [ok |-> TRUE, err |-> NoErr]

AuthorizeEditorsToo(roles, user) ==
  IF user = NullUser THEN [ok |-> FALSE, err |-> TypeError]
  ELSE IF user.role \notin roles \cup {"editor"}
  THEN [ok |-> FALSE,
        err |-> ErrorResponse("User role is not authorized to access this route", 403)]
  ELSE [ok |-> TRUE, err |-> NoErr]

\* exports.authorize(...roles): req.user.role throws when req.user is null
authorize(roles, user) ==
  IF user = NullUser THEN [ok |-> FALSE, err |-> TypeError]
  ELSE IF user.role \notin roles
  THEN [ok |-> FALSE,
        err |-> ErrorResponse("User role is not authorized to access this route", 403)]
  ELSE [ok |-> TRUE, err |-> NoErr]

\* router.<verb>(path, protect, authorize(roles), controller): the middleware
\* in front of a protected controller, in the order it is mounted
Guard(auth, cookie, roles) ==
  LET p == protect(auth, cookie)
  IN IF ~p.ok THEN [pass |-> FALSE, user |-> NullUser, err |-> p.err]
     ELSE LET a == authorize(roles, p.user)
          IN IF ~a.ok THEN [pass |-> FALSE, user |-> p.user, err |-> a.err]
             ELSE [pass |-> TRUE, user |-> p.user, err |-> NoErr]

-----------------------------------------------------------------------------
(* Requests and responses.  resp is the response being written to the      *)
(* client, with the request it answers; Idle when no request is in hand.   *)
(* count is -1 and data is {} when the body has no such key; err is the    *)
(* error handed to errorHandler, NoErr when the response is not its work.  *)

NoBody == [none |-> TRUE]

Req(auth, cookie, id, body) == [auth |-> auth, cookie |-> cookie, id |-> id, body |-> body]

Idle == [route |-> "idle", client |-> "none", req |-> Req(NoHeader, NoToken, 0, NoBody),
         status |-> 0, success |-> FALSE, count |-> -1, data |-> {},
         error |-> "", message |-> "", user |-> NullUser, ctrl |-> FALSE,
         err |-> NoErr]

\* res.status(status).json({ success: true, count, data })
Ok(route, c, req, user, status, count, data) ==
  [route |-> route, client |-> c, req |-> req, status |-> status, success |-> TRUE,
   count |-> count, data |-> data, error |-> "", message |-> "", user |-> user,
   ctrl |-> TRUE, err |-> NoErr]

\* next(err): the error reaches errorHandler, which writes the response; err
\* is the error it was handed
Failed(route, c, req, user, ctrl, err) ==
  LET h == errorHandler(err)
  IN [route |-> route, client |-> c, req |-> req, status |-> h.status,
      success |-> h.success, count |-> -1, data |-> {}, error |-> h.error,
      message |-> "", user |-> user, ctrl |-> ctrl, err |-> err]

\* the rate limiter's own response: no router and no controller has run
TooMany(route, c, req) ==
  [route |-> route, client |-> c, req |-> req, status |-> 429, success |-> FALSE,
   count |-> -1, data |-> {}, error |-> "",
   message |-> "Too many requests, please try again later.", user |-> NullUser,
   ctrl |-> FALSE, err |-> NoErr]

-----------------------------------------------------------------------------
(* The rate limiter: app.use(limiter), mounted before every router.        *)

LimiterOffByOne(current) == current > RateMax + 1

\* express-rate-limit counts the request, then rejects when the count is over max
LimitExceeded(current) == current > RateMax

\* the limiter's step of a request of client c: the hit is counted whether or
\* not the request is let through
Limiter(c) == hits' = [hits EXCEPT ![c] = @ + 1]

Limited(c) == LimitExceeded(hits[c] + 1)

-----------------------------------------------------------------------------
(* The Project model.                                                      *)

BadId == 0      \* a req.params.id that is no ObjectId: findById throws a CastError

NullProject == [id |-> 0, title |-> <<>>, slug |-> <<>>, categories |-> <<>>,
                featured |-> FALSE, createdBy |-> 0]

\* The page in the browser, as the scripts of the site keep it: the scripts
\* the page includes, the testimonial slider (n slides and dots, the index
\* shown, the slides and dots that carry the class 'active', the display of
\* the back button) and the parallax (window.scrollY, the circles that
\* createExpertiseCircles has appended, the elements initParallax has
\* collected, lastScroll, ticking, the callbacks waiting for the next
\* animation frame, and the translateY of each element in hundredths of a
\* pixel, -1 while no script has set one).
ParallaxEls == {"blob", "circle", "arc"}

\* speed of circleData, in hundredths, for the ten circles createExpertiseCircles
\* appends to .expertise-circles
CircleData ==
  [circle1 |-> 18, circle2 |-> 12, circle3 |-> 22, circle4 |-> 15, circle5 |-> 20,
   circle6 |-> 13, circle7 |-> 19, circle8 |-> 17, circle9 |-> 16, circle10 |-> 21]

NotLoaded == [loaded |-> FALSE, scripts |-> {}, n |-> 0, current |-> 0, slideActive |-> {},
              dotActive |-> {}, backDisplay |-> "", scrollY |-> 0,
              circles |-> {}, parallaxEls |-> {}, lastScroll |-> 0,
              ticking |-> FALSE, pending |-> 0,
              transform |-> [el \in ParallaxEls \cup DOMAIN CircleData |-> -1],
              event |-> "none"]

\* The requests the server is working on side by side, one per handler slot.
\* at is the operation the run awaits, doc the document it holds in its
\* variable project, done the handlers and operations it has completed, user
\* what protect attached as req.user.
Handlers == {"h1", "h2"}

Run(route, c, req, user, at) ==
  [route |-> route, client |-> c, req |-> req, user |-> user, at |-> at,
   doc |-> NullProject, done |-> <<>>]

NotRunning == Run("none", "none", Req(NoHeader, NoToken, 0, NoBody), NullUser, "none")

\* Project.findById(id)
FindProject(id) ==
  IF \E p \in projects : p.id = id
  THEN CHOOSE p \in projects : p.id = id
  ELSE NullProject

\* the validators of ProjectSchema on title and categories; "" when they pass.
\* required on an array path asks for an array and is met by the empty one
ProjectValidation(title, categories) ==
  IF title = <<>> THEN "Project title is required"
  ELSE IF Len(title) > TitleMaxLength THEN "Title cannot be more than 100 characters"
  ELSE IF \E i \in DOMAIN categories : categories[i] \notin CategoryEnum
  THEN "not a valid enum value for path categories"
  ELSE ""

ProjectToSaveKeepsPayloadOwner(body, userId) ==
  LET title == Trim(body.title)
  IN [id |-> nextProjectId, title |-> title, slug |-> Slugify(title),
      categories |-> body.categories, featured |-> body.featured,
      createdBy |-> body.createdBy]

\* Project.create(body): cast with the trim setter, validate, run the pre-save
\* hook, insert under the unique index on slug
ProjectToSave(body, userId) ==
  LET title == Trim(body.title)
  IN [id |-> nextProjectId, title |-> title, slug |-> Slugify(title),
      categories |-> body.categories, featured |-> body.featured,
      createdBy |-> userId]

\* Project.findByIdAndUpdate(id, body, { new: true, runValidators: true }):
\* the fields of body are set on the stored document; no save hook runs
ProjectUpdated(p, body) ==
  [p EXCEPT !.title = IF body.hasTitle THEN Trim(body.title) ELSE @,
            !.featured = IF body.hasFeatured THEN body.featured ELSE @,
            !.categories = IF "categories" \in DOMAIN body THEN body.categories ELSE @]

\* runValidators: true: the validators of the paths the update sets, the
\* elements of an array it sets included; "" when they pass
UpdateValidation(body) ==
  IF body.hasTitle /\ Trim(body.title) = <<>> THEN "Project title is required"
  ELSE IF body.hasTitle /\ Len(Trim(body.title)) > TitleMaxLength
  THEN "Title cannot be more than 100 characters"
  ELSE IF /\ "categories" \in DOMAIN body
          /\ \E i \in DOMAIN body.categories : body.categories[i] \notin CategoryEnum
  THEN "not a valid enum value for path categories"
  ELSE ""

-----------------------------------------------------------------------------
(* projectController.  Each controller is an operator from the acting user *)
(* and the request to its outcome: the projects collection it leaves, the  *)
(* error it passes to next (NoErr when it answers itself), and the status, *)
(* count and data of its own answer.                                       *)

Outcome(db, err, status, count, data) ==
  [db |-> db, err |-> err, status |-> status, count |-> count, data |-> data]

getProjectsFeaturedOnly ==
  LET found == {p \in projects : p.featured}
  IN Outcome(projects, NoErr, 200, Cardinality(found), found)

\* exports.getProjects
getProjects == Outcome(projects, NoErr, 200, Cardinality(projects), projects)

\* exports.createProject
createProject(user, body) ==
  LET doc == ProjectToSave(body, user.id)
      msg == ProjectValidation(doc.title, doc.categories)
  IN IF msg # "" THEN Outcome(projects, ValidationError(msg), 0, -1, {})
     ELSE IF \E p \in projects : p.slug = doc.slug
     THEN Outcome(projects, DuplicateKeyError, 0, -1, {})
     ELSE Outcome(projects \cup {doc}, NoErr, 201, -1, {doc})

\* the roles the project routes pass to authorize
ProjectWriteRoles == {"admin"}

\* what a controller's outcome makes of the response
Answer(route, c, req, user, o) ==
  IF o.err # NoErr THEN Failed(route, c, req, user, TRUE, o.err)
  ELSE Ok(route, c, req, user, o.status, o.count, o.data)

-----------------------------------------------------------------------------
(* The limiter's window and the administration of users.                   *)

\* the limiter's window of client c ends: its hits are counted from zero again
WindowExpire(c) ==
  /\ resp = Idle
  /\ hits[c] > 0
  /\ hits' = [hits EXCEPT ![c] = 0]
  /\ UNCHANGED <<page, running, users, projects, nextProjectId, contacts, nextContactId, outbox, resp>>

\* the role field of a stored User is changed (user administration)
SetUserRole(u, r) ==
  /\ resp = Idle
  /\ users[u] # "absent"
  /\ users[u] # r
  /\ users' = [users EXCEPT ![u] = r]
  /\ UNCHANGED <<page, running, projects, nextProjectId, contacts, nextContactId, outbox, hits, resp>>

-----------------------------------------------------------------------------
(* The public read routes of a single project and of the featured ones.    *)

\* req.params.id as the client sent it: the text of an ObjectId, which names
\* the id of a document stored or not, or any other text
IdKey(id) == [kind |-> "id", id |-> id, text |-> <<>>]
TextKey(text) == [kind |-> "text", id |-> 0, text |-> text]

\* the cast of req.params.id to ObjectId inside findById: a text that is no
\* ObjectId does not cast
CastObjectId(key) == IF key.kind = "id" THEN key.id ELSE BadId

\* exports.getProject
getProject(key) ==
  LET id == CastObjectId(key)
  IN IF id = BadId THEN Outcome(projects, CastError, 0, -1, {})
     ELSE IF FindProject(id) = NullProject
     THEN Outcome(projects, ErrorResponse("Project not found", 404), 0, -1, {})
     ELSE Outcome(projects, NoErr, 200, -1, {FindProject(id)})

getFeaturedProjectsCountsAll ==
  LET found == {p \in projects : p.featured = TRUE}
  IN Outcome(projects, NoErr, 200, Cardinality(projects), found)

\* exports.getFeaturedProjects
getFeaturedProjects ==
  LET found == {p \in projects : p.featured = TRUE}
  IN Outcome(projects, NoErr, 200, Cardinality(found), found)

-----------------------------------------------------------------------------
(* The Contact model, the mail utility and contactController.              *)

IsSeparator(ch) == ch \in {".", "-"}

\* \w+([.-]?\w+)* over the whole of s: word characters with single '.' or '-'
\* between them, none at either end
MatchesWordRuns(s) ==
  /\ s # <<>>
  /\ \A i \in DOMAIN s : IsWordChar(s[i]) \/ IsSeparator(s[i])
  /\ IsWordChar(s[1])
  /\ IsWordChar(s[Len(s)])
  /\ \A i \in 1..(Len(s) - 1) : ~(IsSeparator(s[i]) /\ IsSeparator(s[i + 1]))

\* (\.\w{2,3})+ over the whole of s
RECURSIVE MatchesDotGroups(_)
MatchesDotGroups(s) ==
  /\ Len(s) >= 3
  /\ s[1] = "."
  /\ \E n \in {2, 3} :
       /\ Len(s) >= n + 1
       /\ \A k \in 2..(n + 1) : IsWordChar(s[k])
       /\ (Len(s) = n + 1 \/ MatchesDotGroups(SubSeq(s, n + 2, Len(s))))

\* /^\w+([.-]?\w+)*@\w+([.-]?\w+)*(\.\w{2,3})+$/.test(s)
EmailPattern(s) ==
  \E i \in DOMAIN s : \E j \in i..Len(s) :
    /\ s[i] = "@"
    /\ MatchesWordRuns(SubSeq(s, 1, i - 1))
    /\ MatchesWordRuns(SubSeq(s, i + 1, j))
    /\ MatchesDotGroups(SubSeq(s, j + 1, Len(s)))

\* new Contact({...}): the setters of ContactSchema (trim, lowercase) applied
ContactToSave(body) ==
  [id |-> nextContactId,
   firstName |-> Trim(body.firstName),
   lastName |-> Trim(body.lastName),
   email |-> ToLowerCase(Trim(body.email)),
   company |-> Trim(body.company),
   message |-> Trim(body.message),
   status |-> "new"]

\* the validators of ContactSchema; "" when they pass.  match is not applied to
\* an empty value, which required has already refused.
ContactValidation(doc) ==
  IF doc.firstName = <<>> THEN "First name is required"
  ELSE IF doc.lastName = <<>> THEN "Last name is required"
  ELSE IF doc.email = <<>> THEN "Email is required"
  ELSE IF ~EmailPattern(doc.email) THEN "Please provide a valid email"
  ELSE IF doc.message = <<>> THEN "Message is required"
  ELSE ""

\* "admin@peaktech.com"
AdminAddress == <<"a","d","m","i","n","@","p","e","a","k","t","e","c","h",".","c","o","m">>

Mail(to, subject) == [to |-> to, subject |-> subject]

-----------------------------------------------------------------------------
(* The contact management routes: GET /api/contact, GET, PUT and DELETE    *)
(* /api/contact/:id, each mounted behind protect and authorize('admin').   *)

\* the roles the contact management routes pass to authorize
ContactManageRoles == {"admin"}

ContactStatusEnum == {"new", "contacted", "in-progress", "completed", "archived"}

ContactRoutes == {"getContacts", "getContact", "updateContact", "deleteContact"}

NullContact == [id |-> 0, firstName |-> <<>>, lastName |-> <<>>, email |-> <<>>,
                company |-> <<>>, message |-> <<>>, status |-> "null"]

\* Contact.findById(id)
FindContact(id) ==
  IF \E d \in contacts : d.id = id
  THEN CHOOSE d \in contacts : d.id = id
  ELSE NullContact

\* exports.getContacts: the body is empty, nothing is written to res
getContacts == Outcome(contacts, NoErr, 0, -1, {})

\* contactController.getContact: the contact of that id
getContact(id) ==
  IF id = BadId THEN Outcome(contacts, CastError, 0, -1, {})
  ELSE IF FindContact(id) = NullContact
  THEN Outcome(contacts, ErrorResponse("Contact not found", 404), 0, -1, {})
  ELSE Outcome(contacts, NoErr, 200, -1, {FindContact(id)})

\* contactController.updateContact: sets the status of the contact of that id
updateContact(id, body) ==
  IF id = BadId THEN Outcome(contacts, CastError, 0, -1, {})
  ELSE LET contact == FindContact(id)
       IN IF contact = NullContact
          THEN Outcome(contacts, ErrorResponse("Contact not found", 404), 0, -1, {})
          ELSE IF body.status \notin ContactStatusEnum
          THEN Outcome(contacts, ValidationError("not a valid enum value for path status"),
                       0, -1, {})
          ELSE LET updated == [contact EXCEPT !.status = body.status]
               IN Outcome((contacts \ {contact}) \cup {updated}, NoErr, 200, -1, {updated})

\* contactController.deleteContact: removes the contact of that id
deleteContact(id) ==
  IF id = BadId THEN Outcome(contacts, CastError, 0, -1, {})
  ELSE IF FindContact(id) = NullContact
  THEN Outcome(contacts, ErrorResponse("Contact not found", 404), 0, -1, {})
  ELSE Outcome(contacts \ {FindContact(id)}, NoErr, 200, -1, {})

\* the controller a contact management route ends in
contactController(route, id, body) ==
  IF route = "getContacts" THEN getContacts
  ELSE IF route = "getContact" THEN getContact(id)
  ELSE IF route = "updateContact" THEN updateContact(id, body)
  ELSE deleteContact(id)

\* a controller that returned without writing to res and without calling next:
\* the request stays unanswered
Unanswered(route, c, req, user) ==
  [route |-> route, client |-> c, req |-> req, status |-> 0, success |-> FALSE,
   count |-> -1, data |-> {}, error |-> "", message |-> "", user |-> user,
   ctrl |-> TRUE, err |-> NoErr]

ContactAnswer(route, c, req, user, o) ==
  IF o.err = NoErr /\ o.status = 0 THEN Unanswered(route, c, req, user)
  ELSE Answer(route, c, req, user, o)

\* the routes that mount protect and authorize
GuardedRoutes == {"createProject", "updateProject", "deleteProject"} \cup ContactRoutes

-----------------------------------------------------------------------------
(* The GET routes of the project router and the controller a path reaches. *)

SegFeatured == <<"f","e","a","t","u","r","e","d">>
SegCategory == <<"c","a","t","e","g","o","r","y">>

\* a fixed segment of a route path, and a named parameter (:id, :category)
Lit(text) == [param |-> FALSE, text |-> text]
Param == [param |-> TRUE, text |-> <<>>]

ProjectGetRoutesIdFirst ==
  << [path |-> <<>>,                       handler |-> "getProjects"],
     [path |-> <<Param>>,                  handler |-> "getProject"],
     [path |-> <<Lit(SegFeatured)>>,       handler |-> "getFeaturedProjects"],
     [path |-> <<Lit(SegCategory), Param>>, handler |-> "getProjectsByCategory"] >>

\* router.get('/'), router.get('/featured'), router.get('/:id'),
\* router.get('/category/:category'), as registered
ProjectGetRoutes ==
  << [path |-> <<>>,                       handler |-> "getProjects"],
     [path |-> <<Lit(SegFeatured)>>,       handler |-> "getFeaturedProjects"],
     [path |-> <<Param>>,                  handler |-> "getProject"],
     [path |-> <<Lit(SegCategory), Param>>, handler |-> "getProjectsByCategory"] >>

\* a parameter takes any one segment; a fixed segment is compared without
\* regard to case (the router is not case sensitive)
SegmentMatches(pat, seg) ==
  \/ pat.param
  \/ seg.kind = "text" /\ ToLowerCase(seg.text) = ToLowerCase(pat.text)

PathMatches(pattern, path) ==
  /\ Len(pattern) = Len(path)
  /\ \A i \in DOMAIN pattern : SegmentMatches(pattern[i], path[i])

\* the handler of the first registered route that matches the path
Dispatch(path) ==
  LET hit == {k \in DOMAIN ProjectGetRoutes : PathMatches(ProjectGetRoutes[k].path, path)}
  IN IF hit = {} THEN "notFound"
     ELSE ProjectGetRoutes[CHOOSE k \in hit : \A j \in hit : k <= j].handler

\* the text of a category name
CategoryText(cat) ==
  CASE cat = "AI"     -> <<"A","I">>
    [] cat = "Mobile" -> <<"M","o","b","i","l","e">>
    [] cat = "Web"    -> <<"W","e","b">>
    [] cat = "UI/UX"  -> <<"U","I","/","U","X">>
    [] OTHER          -> <<>>

\* what a segment reads as in req.params; the text of an ObjectId stands for
\* its hexadecimal digits, which name no category
ParamText(seg) == IF seg.kind = "text" THEN seg.text ELSE <<"i","d">>

\* exports.getProjectsByCategory
getProjectsByCategory(category) ==
  LET found == {p \in projects :
                  \E i \in DOMAIN p.categories : CategoryText(p.categories[i]) = category}
  IN Outcome(projects, NoErr, 200, Cardinality(found), found)

\* no route matches: the 404 of Express itself
NotFound(c, req) ==
  [Idle EXCEPT !.route = "notFound", !.client = c, !.req = req, !.status = 404]

-----------------------------------------------------------------------------
(* Requests under way.  A handler gives way at each await, so the steps of  *)
(* the requests the server is working on interleave: one step is one        *)
(* awaited operation of the database or of the mail transport, together     *)
(* with the synchronous code that runs once it has settled.  The step that  *)
(* ends a run writes its response.                                          *)

\* the roles a guarded route passes to authorize
MountedRoles(route) ==
  IF route \in ContactRoutes THEN ContactManageRoles ELSE ProjectWriteRoles

MountedAuthorizeFirst(route) ==
  IF route \in GuardedRoutes THEN <<"authorize", "protect", "controller">>
  ELSE <<"controller">>

\* router.<verb>(path, ...handlers): the handlers of a route as mounted
Mounted(route) ==
  IF route \in GuardedRoutes THEN <<"protect", "authorize", "controller">>
  ELSE <<"controller">>

\* the routes of the method GET: express.static looks their path up on disk
\* before a router sees the request
GetRoutes ==
  {"getPath", "getProjects", "getProject", "getFeaturedProjects", "getProjectsByCategory",
   "getContacts", "getContact"}

\* the operation a controller awaits first
FirstStage(route) ==
  IF route = "createProject" THEN "create"
  ELSE IF route \in {"updateProject", "deleteProject"} THEN "findById"
  ELSE IF route = "submitContact" THEN "save"
  ELSE IF route \in ContactRoutes THEN "manage"
  ELSE "query"

\* the run in slot h ends: its slot is held until its response is delivered
Ended(h) == [running EXCEPT ![h].at = "done"]

\* The handlers of a route run one after the other, from the one after those
\* in done, until one of them awaits or fails or the controller is entered.
\* protect verifies the token and then awaits User.findById; authorize runs
\* on req.user.  at is the operation awaited, "done" with the error passed to
\* next when a handler failed.
RECURSIVE Walk(_, _, _, _)
Walk(route, req, user, done) ==
  LET handler == Mounted(route)[Len(done) + 1]
  IN IF handler = "controller"
     THEN [at |-> FirstStage(route), user |-> user, done |-> done, err |-> NoErr]
     ELSE IF handler = "protect"
     THEN LET p == protect(req.auth, req.cookie)
          IN IF p.ok THEN [at |-> "protect", user |-> user, done |-> done, err |-> NoErr]
             ELSE [at |-> "done", user |-> user, done |-> done, err |-> p.err]
     ELSE LET a == authorize(MountedRoles(route), user)
          IN IF a.ok THEN Walk(route, req, user, Append(done, "authorize"))
             ELSE [at |-> "done", user |-> user, done |-> done, err |-> a.err]

\* the run r of slot h goes on as the handlers have left it: at its next
\* await, or answered by errorHandler
Proceed(h, r, w) ==
  /\ running' = [running EXCEPT ![h] = [r EXCEPT !.at = w.at, !.user = w.user,
                                                 !.done = w.done]]
  /\ IF w.err # NoErr
     THEN resp' = Failed(r.route, r.client, r.req, w.user, FALSE, w.err)
     ELSE UNCHANGED resp

\* a request arrives: the limiter counts it and answers 429 itself or lets
\* it through.  A GET then waits for express.static; any other request runs
\* the handlers of its route up to their first await.
BeginRun(h, c, route, auth, cookie, id, body) ==
  LET req == Req(auth, cookie, id, body)
      r   == Run(route, c, req, NullUser, "static")
  IN /\ resp = Idle
     /\ running[h] = NotRunning
     /\ Limiter(c)
     /\ IF Limited(c)
        THEN resp' = TooMany(route, c, req) /\ UNCHANGED running
        ELSE IF route \in GetRoutes
        THEN running' = [running EXCEPT ![h] = r] /\ UNCHANGED resp
        ELSE Proceed(h, r, Walk(route, req, NullUser, <<>>))
     /\ UNCHANGED <<page, users, projects, nextProjectId, contacts, nextContactId, outbox>>

\* express.static has found no file for the path of a GET and calls next():
\* the router takes the request to the handlers of the first route that
\* matches, or no route matches and Express answers 404
RunStatic(h) ==
  LET r       == running[h]
      route   == IF r.route = "getPath" THEN Dispatch(r.req.body.path) ELSE r.route
      routed  == [r EXCEPT !.route = route]
  IN /\ resp = Idle
     /\ r.at = "static"
     /\ IF route = "notFound"
        THEN resp' = NotFound(r.client, r.req) /\ running' = Ended(h)
        ELSE Proceed(h, routed, Walk(route, r.req, NullUser, <<>>))
     /\ UNCHANGED <<page, users, projects, nextProjectId, contacts, nextContactId, outbox, hits>>

\* req.user = await User.findById(decoded.id) has settled: protect calls
\* next(), and the handlers mounted after it run up to their first await
RunProtect(h) ==
  LET r == running[h]
      p == protect(r.req.auth, r.req.cookie)
  IN /\ resp = Idle
     /\ r.at = "protect"
     /\ Proceed(h, r, Walk(r.route, r.req, p.user, Append(r.done, "protect")))
     /\ UNCHANGED <<page, users, projects, nextProjectId, contacts, nextContactId, outbox, hits>>

\* the outcome of the controller of a public GET route
ReadOutcome(route, req) ==
  LET path == IF "path" \in DOMAIN req.body THEN req.body.path ELSE <<>>
  IN CASE route = "getProjects" -> getProjects
       [] route = "getFeaturedProjects" -> getFeaturedProjects
       [] route = "getProject" ->
            getProject(IF path # <<>> THEN path[1] ELSE req.body.key)
       [] route = "getProjectsByCategory" -> getProjectsByCategory(ParamText(path[2]))

\* the query a public GET route awaits has settled: the controller answers
RunQuery(h) ==
  LET r == running[h]
  IN /\ resp = Idle
     /\ r.at = "query"
     /\ resp' = Answer(r.route, r.client, r.req, NullUser, ReadOutcome(r.route, r.req))
     /\ running' = Ended(h)
     /\ UNCHANGED <<page, users, projects, nextProjectId, contacts, nextContactId, outbox, hits>>

\* req.body.createdBy = req.user.id; const project = await Project.create(req.body);
\* res.status(201).json({ success: true, data: project })
RunCreate(h) ==
  LET r == running[h]
      o == createProject(r.user, r.req.body)
  IN /\ resp = Idle
     /\ r.at = "create"
     /\ projects' = o.db
     /\ nextProjectId' = IF o.db # projects THEN nextProjectId + 1 ELSE nextProjectId
     /\ resp' = Answer(r.route, r.client, r.req, r.user, o)
     /\ running' = Ended(h)
     /\ UNCHANGED <<page, users, contacts, nextContactId, outbox, hits>>

\* if (!project) ... 404; the owner check ... 401: the error the checks of
\* updateProject and deleteProject pass to next, NoErr when they pass
OwnerCheck(route, user, project) ==
  IF project = NullProject THEN ErrorResponse("Project not found", 404)
  ELSE IF project.createdBy # user.id /\ user.role # "admin"
  THEN ErrorResponse(IF route = "updateProject"
                     THEN "User is not authorized to update this project"
                     ELSE "User is not authorized to delete this project", 401)
  ELSE NoErr

\* let project = await Project.findById(req.params.id), and the checks on it
RunFindById(h) ==
  LET r       == running[h]
      project == FindProject(r.req.id)
      err     == IF r.req.id = BadId THEN CastError
                 ELSE OwnerCheck(r.route, r.user, project)
  IN /\ resp = Idle
     /\ r.at = "findById"
     /\ IF err # NoErr
        THEN /\ resp' = Failed(r.route, r.client, r.req, r.user, TRUE, err)
             /\ running' = Ended(h)
        ELSE /\ running' = [running EXCEPT ![h].doc = project,
                                           ![h].at = IF r.route = "updateProject"
                                                     THEN "findByIdAndUpdate"
                                                     ELSE "remove"]
             /\ UNCHANGED resp
     /\ UNCHANGED <<page, users, projects, nextProjectId, contacts, nextContactId, outbox, hits>>

findByIdAndUpdateIfUnchanged(stored, read, body) ==
  IF stored = read THEN ProjectUpdated(stored, body) ELSE stored

\* what Project.findByIdAndUpdate(id, body, ...) makes of the document stored
\* under id: the paths of body set on it, whatever document the run has read
findByIdAndUpdate(stored, read, body) == ProjectUpdated(stored, body)

\* project = await Project.findByIdAndUpdate(req.params.id, req.body, ...):
\* the update validators first, then one update of the document stored under
\* the id, null when none is stored; res.status(200).json({ success: true,
\* data: project }), a null project being the empty data
RunFindByIdAndUpdate(h) ==
  LET r      == running[h]
      stored == FindProject(r.req.id)
  IN /\ resp = Idle
     /\ r.at = "findByIdAndUpdate"
     /\ IF UpdateValidation(r.req.body) # ""
        THEN /\ resp' = Failed(r.route, r.client, r.req, r.user, TRUE,
                               ValidationError(UpdateValidation(r.req.body)))
             /\ UNCHANGED projects
        ELSE IF stored = NullProject
        THEN /\ resp' = Ok(r.route, r.client, r.req, r.user, 200, -1, {})
             /\ UNCHANGED projects
        ELSE LET updated == findByIdAndUpdate(stored, r.doc, r.req.body)
             IN /\ projects' = (projects \ {stored}) \cup {updated}
                /\ resp' = Ok(r.route, r.client, r.req, r.user, 200, -1, {updated})
     /\ running' = Ended(h)
     /\ UNCHANGED <<page, users, nextProjectId, contacts, nextContactId, outbox, hits>>

\* await project.remove(): the document of the id the run has read is deleted,
\* if it is still stored; res.status(200).json({ success: true, data: {} })
RunRemove(h) ==
  LET r == running[h]
  IN /\ resp = Idle
     /\ r.at = "remove"
     /\ projects' = {p \in projects : p.id # r.doc.id}
     /\ resp' = Ok(r.route, r.client, r.req, r.user, 200, -1, {})
     /\ running' = Ended(h)
     /\ UNCHANGED <<page, users, nextProjectId, contacts, nextContactId, outbox, hits>>

\* the controller of a contact management route runs and answers
RunManage(h) ==
  LET r == running[h]
      o == contactController(r.route, r.req.id, r.req.body)
  IN /\ resp = Idle
     /\ r.at = "manage"
     /\ contacts' = o.db
     /\ resp' = ContactAnswer(r.route, r.client, r.req, r.user, o)
     /\ running' = Ended(h)
     /\ UNCHANGED <<page, users, projects, nextProjectId, nextContactId, outbox, hits>>

submitContactNextSkipsSecondSend(stage, ok) ==
  IF ~ok THEN "catch"
  ELSE IF stage = "save" THEN "sendAdmin"
  ELSE "respond"

submitContactNextIgnoresMailFailure(stage, ok) ==
  IF stage = "save" THEN (IF ok THEN "sendAdmin" ELSE "catch")
  ELSE IF stage = "sendAdmin" THEN "sendUser"
  ELSE "respond"

\* the statement submitContact goes to when the operation it awaits at stage
\* settles: the next await of the try block when it resolved, the response at
\* its end after the last one, the catch block when it threw
submitContactNext(stage, ok) ==
  IF ~ok THEN "catch"
  ELSE IF stage = "save" THEN "sendAdmin"
  ELSE IF stage = "sendAdmin" THEN "sendUser"
  ELSE "respond"

\* the mail a stage of submitContact hands to sendEmail
submitContactMail(stage, body) ==
  IF stage = "sendAdmin" THEN Mail(AdminAddress, "New Contact Form Submission")
  ELSE Mail(body.email, "Thank you for contacting PeakTech")

SubmitRespondAlwaysCreated(r, ok) ==
  [route |-> r.route, client |-> r.client, req |-> r.req,
   status |-> 201, success |-> TRUE, count |-> -1, data |-> {}, error |-> "",
   message |-> "Contact form submitted successfully",
   user |-> NullUser, ctrl |-> TRUE, err |-> NoErr]

\* res.status(201).json(...) at the end of the try block, res.status(500).json(...)
\* in the catch block
SubmitRespond(r, ok) ==
  [route |-> r.route, client |-> r.client, req |-> r.req,
   status |-> IF ok THEN 201 ELSE 500, success |-> ok, count |-> -1, data |-> {},
   error |-> "",
   message |-> IF ok THEN "Contact form submitted successfully"
               ELSE "There was a problem submitting your form",
   user |-> NullUser, ctrl |-> TRUE, err |-> NoErr]

\* the operation submitContact awaits at r.at has settled, resolved or thrown:
\* the run goes on to its next await, or it answers
SubmitSettled(h, ok) ==
  LET r  == running[h]
      to == submitContactNext(r.at, ok)
  IN IF to \in {"respond", "catch"}
     THEN /\ resp' = SubmitRespond(r, to = "respond")
          /\ running' = [running EXCEPT ![h].at = "done",
                                        ![h].done = IF ok THEN Append(@, r.at) ELSE @]
     ELSE /\ running' = [running EXCEPT ![h].at = to,
                                        ![h].done = IF ok THEN Append(@, r.at) ELSE @]
          /\ UNCHANGED resp

\* new Contact({...}); await newContact.save()
SubmitSave(h) ==
  LET r   == running[h]
      doc == ContactToSave(r.req.body)
      ok  == ContactValidation(doc) = ""
  IN /\ resp = Idle
     /\ r.at = "save"
     /\ contacts' = IF ok THEN contacts \cup {doc} ELSE contacts
     /\ nextContactId' = IF ok THEN nextContactId + 1 ELSE nextContactId
     /\ SubmitSettled(h, ok)
     /\ UNCHANGED <<page, users, projects, nextProjectId, outbox, hits>>

\* await sendEmail(...): the pending transporter.sendMail settles, delivered or
\* thrown
SendEmailSettles(h, ok) ==
  LET r == running[h]
  IN /\ resp = Idle
     /\ r.at \in {"sendAdmin", "sendUser"}
     /\ outbox' = IF ok THEN Append(outbox, submitContactMail(r.at, r.req.body))
                  ELSE outbox
     /\ SubmitSettled(h, ok)
     /\ UNCHANGED <<page, users, projects, nextProjectId, contacts, nextContactId, hits>>

\* the response has been written: the run that wrote it leaves its slot
Deliver ==
  /\ resp # Idle
  /\ resp' = Idle
  /\ running' = [h \in Handlers |-> IF running[h].at = "done" THEN NotRunning
                                    ELSE running[h]]
  /\ UNCHANGED <<page, users, projects, nextProjectId, contacts, nextContactId, outbox, hits>>

-----------------------------------------------------------------------------
(* Inputs.                                                                 *)

\* "AI & Ops: v2!"
TitleAiOps == <<"A","I"," ","&"," ","O","p","s",":"," ","v","2","!">>
\* " a_1  B": a leading blank, a run of two blanks
TitleSpaced == <<" ","a","_","1"," "," ","B">>
\* "A_1 - b": another title with the slug of TitleSpaced
TitleDashed == <<"A","_","1"," ","-"," ","b">>
\* a blank, a tab and a zero width no-break space (U+FEFF): nothing but
\* white space
TitleBlank == <<" ", "\t", "﻿">>

CreateBodies ==
  { [title |-> TitleAiOps,  categories |-> <<"AI">>,           featured |-> FALSE, createdBy |-> 2],
    [title |-> TitleSpaced, categories |-> <<"Web","Mobile">>, featured |-> TRUE,  createdBy |-> 2],
    [title |-> TitleDashed, categories |-> <<"UI/UX">>,        featured |-> FALSE, createdBy |-> 1],
    [title |-> TitleBlank,  categories |-> <<"AI">>,           featured |-> FALSE, createdBy |-> 1],
    [title |-> TitleAiOps,  categories |-> <<"AI","Games">>,   featured |-> FALSE, createdBy |-> 1] }

UpdateBodies ==
  { [hasTitle |-> TRUE, title |-> TitleDashed, hasFeatured |-> FALSE, featured |-> FALSE],
    [hasTitle |-> TRUE, title |-> TitleAiOps,  hasFeatured |-> FALSE, featured |-> FALSE],
    [hasTitle |-> FALSE, title |-> <<>>,       hasFeatured |-> TRUE,  featured |-> TRUE] }

\* the credentials of a request: <<Authorization header, token cookie>>
Creds ==
  { <<NoHeader, NoToken>>,
    <<Bearer(Token("valid", 1)), NoToken>>,
    <<Basic, Token("valid", 2)>>,
    <<Bearer(Token("expired", 1)), NoToken>>,
    <<Bearer(Token("malformed", 0)), NoToken>>,
    <<Bearer(NoToken), Token("valid", 1)>> }

\* "a_1-b": the slug of TitleSpaced and of TitleDashed
SlugA1B == <<"a","_","1","-","b">>
\* "no-such": the slug of no title of CreateBodies
SlugNoSuch == <<"n","o","-","s","u","c","h">>

\* the keys of GET /api/projects/:id: ObjectIds, stored or not, and slugs
ProjectKeys ==
  {IdKey(id) : id \in 1..MaxProjectIds}
    \cup {TextKey(<<"a","i","-","o","p","s","-","v","2">>), TextKey(SlugA1B),
          TextKey(SlugNoSuch)}

ProjectIds == 0..MaxProjectIds

NameAnn == <<"A","n","n">>
NameLee == <<"L","e","e">>
TextHello == <<"H","i">>
\* "a@b.co"
EmailPlain == <<"a","@","b",".","c","o">>
\* " A.b@C-d.org ": valid once trimmed and in lower case
EmailPadded == <<" ","A",".","b","@","C","-","d",".","o","r","g"," ">>
\* "not-an-email"
EmailNotAnEmail == <<"n","o","t","-","a","n","-","e","m","a","i","l">>
\* "a@b.c": the last group has a single letter
EmailShortTld == <<"a","@","b",".","c">>
\* "a..b@c.com": two dots in a row
EmailTwoDots == <<"a",".",".","b","@","c",".","c","o","m">>

ContactBody(firstName, email, message) ==
  [firstName |-> firstName, lastName |-> NameLee, email |-> email,
   company |-> <<>>, message |-> message]

ContactBodies ==
  { ContactBody(NameAnn, EmailPlain, TextHello),
    ContactBody(NameAnn, EmailPadded, TextHello),
    ContactBody(NameAnn, EmailNotAnEmail, TextHello),
    ContactBody(NameAnn, EmailShortTld, TextHello),
    ContactBody(NameAnn, EmailTwoDots, TextHello),
    ContactBody(TitleBlank, EmailPlain, TextHello),
    ContactBody(NameAnn, EmailPlain, <<>>),
    ContactBody(NameAnn, <<>>, TextHello) }

-----------------------------------------------------------------------------
(* The server handling the write routes of the projects: one request under *)
(* way at a time, and the role changes of user 1 in between its steps.     *)

Init ==
  /\ users = [u \in UserIds |-> IF u = 1 THEN "admin" ELSE "editor"]
  /\ projects = {}
  /\ nextProjectId = 1
  /\ contacts = {}
  /\ nextContactId = 1
  /\ outbox = <<>>
  /\ hits = [c \in Clients |-> 0]
  /\ resp = Idle
  /\ running = [h \in Handlers |-> NotRunning]
  /\ page = NotLoaded

Next ==
  \/ \E cr \in Creds, b \in CreateBodies :
       /\ hits["c1"] < HitCap
       /\ nextProjectId <= MaxProjectIds
       /\ BeginRun("h1", "c1", "createProject", cr[1], cr[2], 0, b)
  \/ \E cr \in Creds, id \in ProjectIds, b \in UpdateBodies :
       hits["c1"] < HitCap /\ BeginRun("h1", "c1", "updateProject", cr[1], cr[2], id, b)
  \/ \E cr \in Creds, id \in ProjectIds :
       hits["c1"] < HitCap /\ BeginRun("h1", "c1", "deleteProject", cr[1], cr[2], id, NoBody)
  \/ RunProtect("h1")
  \/ RunCreate("h1")
  \/ RunFindById("h1")
  \/ RunFindByIdAndUpdate("h1")
  \/ RunRemove("h1")
  \/ Deliver
  \/ \E c \in Clients : WindowExpire(c)
  \/ \E r \in Roles : SetUserRole(1, r)

Spec == Init /\ [][Next]_vars

-----------------------------------------------------------------------------
(* The server handling the public reads of the projects: one read under    *)
(* way in slot h2 while an admin's write is under way in slot h1.          *)

AdminHeader == Bearer(Token("valid", 1))

NextRead ==
  \/ \E cr \in Creds :
       hits["c1"] < HitCap /\ BeginRun("h2", "c1", "getProjects", cr[1], cr[2], 0, NoBody)
  \/ \E key \in ProjectKeys :
       /\ hits["c1"] < HitCap
       /\ BeginRun("h2", "c1", "getProject", NoHeader, NoToken, CastObjectId(key),
                   [key |-> key])
  \/ /\ hits["c1"] < HitCap
     /\ BeginRun("h2", "c1", "getFeaturedProjects", NoHeader, NoToken, 0, NoBody)
  \/ RunStatic("h2")
  \/ RunQuery("h2")
  \/ \E b \in CreateBodies :
       /\ hits["c1"] < HitCap
       /\ nextProjectId <= MaxProjectIds
       /\ BeginRun("h1", "c1", "createProject", AdminHeader, NoToken, 0, b)
  \/ \E id \in 1..MaxProjectIds, b \in {u \in UpdateBodies : u.hasFeatured} :
       hits["c1"] < HitCap /\ BeginRun("h1", "c1", "updateProject", AdminHeader, NoToken, id, b)
  \/ \E id \in 1..MaxProjectIds :
       /\ hits["c1"] < HitCap
       /\ BeginRun("h1", "c1", "deleteProject", AdminHeader, NoToken, id, NoBody)
  \/ RunProtect("h1")
  \/ RunCreate("h1")
  \/ RunFindById("h1")
  \/ RunFindByIdAndUpdate("h1")
  \/ RunRemove("h1")
  \/ Deliver
  \/ \E c \in Clients : WindowExpire(c)

SpecRead == Init /\ [][NextRead]_vars

-----------------------------------------------------------------------------
(* The slug rule as the specification words it: the title in lower case,   *)
(* the characters that are neither word characters nor blanks dropped,     *)
(* every run of blanks turned into one hyphen.                             *)

KeptChars(title) ==
  SelectSeq(ToLowerCase(title), LAMBDA ch : IsWordChar(ch) \/ ch = " ")

RECURSIVE HyphenateBlanks(_)
HyphenateBlanks(k) ==
  IF k = <<>> THEN <<>>
  ELSE IF Head(k) # " " THEN <<Head(k)>> \o HyphenateBlanks(Tail(k))
  ELSE IF Len(k) > 1 /\ k[2] = " " THEN HyphenateBlanks(Tail(k))
  ELSE <<"-">> \o HyphenateBlanks(Tail(k))

DerivedSlug(title) == HyphenateBlanks(KeptChars(title))

\* "ai-ops-v2"
SlugAiOps == <<"a","i","-","o","p","s","-","v","2">>

\* the user a request authenticates as: the stored user its token names, when
\* the token it sends (Bearer header, else cookie) is valid; NullUser otherwise
Sender(req) ==
  LET tok == ExtractToken(req.auth, req.cookie)
  IN IF tok.kind = "valid" THEN FindUser(tok.uid) ELSE NullUser

Admitted(r) == r.route # "idle" /\ r.status # 429

-----------------------------------------------------------------------------
(* Claims on the project routes.                                           *)

\* C1: after a successful create, the stored project's slug is its title in
\* lower case, without the characters that are neither word characters nor
\* blanks, with each run of blanks replaced by one hyphen; the title
\* "AI & Ops: v2!" gets the slug "ai-ops-v2".
C1_CreateDerivesSlug ==
  (resp.route = "createProject" /\ resp.status = 201) =>
     /\ Cardinality(resp.data) = 1
     /\ \A d \in resp.data :
          /\ d \in projects
          /\ d.title = Trim(resp.req.body.title)
          /\ d.slug = DerivedSlug(d.title)
          /\ (d.title = TitleAiOps => d.slug = SlugAiOps)

C1_Witness ==
  /\ resp.route = "createProject"
  /\ resp.status = 201
  /\ \E d \in resp.data : d \in projects /\ d.title = TitleAiOps /\ d.slug = SlugAiOps

\* C2: in every state reached by creates and updates, each stored project's
\* slug is the slug derived from its current title.
C2_SlugFollowsTitle ==
  \A p \in projects : p.slug = DerivedSlug(p.title)

\* C3: a PUT /api/projects/:id of an authenticated user who is neither the
\* project's createdBy nor an admin, for a stored project, is answered 403 and
\* leaves the projects as they were.  The user is req.user, as protect has
\* read it from the store.
C3_NonOwnerPutForbidden ==
  [][ ( /\ resp'.route = "updateProject"
        /\ Admitted(resp')
        /\ resp'.user # NullUser
        /\ resp'.user.role # "admin"
        /\ \E p \in projects :
             p.id = resp'.req.id /\ p.createdBy # resp'.user.id )
      => (resp'.status = 403 /\ projects' = projects) ]_vars

C3_Witness ==
  /\ resp.route = "updateProject"
  /\ resp.status = 403
  /\ resp.user.role = "editor"
  /\ \E p \in projects : p.id = resp.req.id /\ p.createdBy # resp.user.id

\* C4: a PUT or DELETE /api/projects/:id of an authenticated user who is the
\* project's createdBy, whatever the user's role, or who is an admin, is
\* permitted: it is answered 200.
C4_OwnerOrAdminMayWrite ==
  ( /\ resp.route \in {"updateProject", "deleteProject"}
    /\ Admitted(resp)
    /\ resp.user # NullUser
    /\ \E p \in projects :
         /\ p.id = resp.req.id
         /\ (p.createdBy = resp.user.id \/ resp.user.role = "admin") )
  => resp.status = 200

\* C5: a request to a protected route whose token is missing, malformed or
\* expired is answered 401, reaches no controller and changes no stored
\* project, contact or user.
C5_BadTokenUnauthorized ==
  [][ ( /\ resp'.route \in {"createProject", "updateProject", "deleteProject"}
        /\ Admitted(resp')
        /\ ExtractToken(resp'.req.auth, resp'.req.cookie).kind
             \in {"none", "malformed", "expired"} )
      => ( /\ resp'.status = 401
           /\ ~resp'.ctrl
           /\ UNCHANGED <<users, projects, nextProjectId, contacts>> ) ]_vars

C5_Witness ==
  /\ resp.route = "deleteProject"
  /\ resp.status = 401
  /\ ExtractToken(resp.req.auth, resp.req.cookie).kind = "expired"
  /\ \E p \in projects : p.id = resp.req.id

\* C6: GET /api/projects without credentials is answered 200 with success
\* true, every stored project as data and their number as count, and changes
\* no stored state.
C6_PublicListing ==
  [][ ( /\ resp'.route = "getProjects"
        /\ Admitted(resp')
        /\ resp'.req.auth = NoHeader
        /\ resp'.req.cookie = NoToken )
      => ( /\ resp'.status = 200
           /\ resp'.success
           /\ resp'.data = projects
           /\ resp'.count = Cardinality(projects)
           /\ UNCHANGED <<users, projects, nextProjectId, contacts>> ) ]_vars

C6_Witness ==
  /\ resp.route = "getProjects"
  /\ resp.req.auth = NoHeader
  /\ resp.req.cookie = NoToken
  /\ resp.status = 200
  /\ resp.count = 2
  /\ resp.data = projects
  /\ \E p \in projects : ~p.featured

-----------------------------------------------------------------------------
(* The rate limiter under load: client c1 sends up to OverLimit requests    *)
(* beyond the limiter's max within a window, client c2 a few beside it.    *)

RateBody == [title |-> TitleAiOps, categories |-> <<"AI">>, featured |-> FALSE,
             createdBy |-> 1]

\* the requests a client sends within one window
RateCap(c) == IF c = "c1" THEN RateMax + OverLimit ELSE HitCap + 1

NextRate ==
  \/ \E c \in Clients :
       /\ hits[c] < RateCap(c)
       /\ BeginRun("h2", c, "getProjects", NoHeader, NoToken, 0, NoBody)
  \/ RunStatic("h2")
  \/ RunQuery("h2")
  \/ \E c \in Clients :
       /\ hits[c] < RateCap(c)
       /\ nextProjectId <= MaxProjectIds
       /\ BeginRun("h1", c, "createProject", Bearer(Token("valid", 1)), NoToken, 0, RateBody)
  \/ RunProtect("h1")
  \/ RunCreate("h1")
  \/ Deliver
  \/ \E c \in Clients : WindowExpire(c)

SpecRate == Init /\ [][NextRate]_vars

\* C7: once a client has made RateMax (100) requests within a window, each
\* further request of that client in the window is rejected by the limiter
\* (429) before any router or controller runs and changes no stored state; a
\* client below the limit is let through whatever the other clients' counts
\* are, and a request counts for its own client only.  The limiter acts in
\* the step in which the request is counted.
C7_RateLimit ==
  [][ /\ \A c \in Clients :
           hits'[c] = hits[c] + 1 =>
             /\ hits[c] >= RateMax =>
                  /\ resp'.status = 429
                  /\ resp'.client = c
                  /\ ~resp'.ctrl
                  /\ UNCHANGED <<users, projects, nextProjectId, contacts,
                                 nextContactId, outbox, running>>
             /\ hits[c] < RateMax => resp'.status # 429
             /\ \A d \in Clients \ {c} : hits'[d] = hits[d]
      /\ (resp' # resp /\ resp'.status = 429) =>
           (hits[resp'.client] >= RateMax /\ hits'[resp'.client] = hits[resp'.client] + 1)
    ]_vars

C7_Witness ==
  /\ resp.route = "createProject"
  /\ resp.client = "c1"
  /\ resp.status = 429
  /\ hits["c1"] = RateMax + 1
  /\ hits["c2"] \in 1..(RateMax - 1)
  /\ projects = {}

-----------------------------------------------------------------------------
(* The server handling the contact form.                                   *)

NextContact ==
  \/ \E b \in ContactBodies :
       /\ hits["c1"] < HitCap
       /\ nextContactId <= MaxContactIds
       /\ BeginRun("h1", "c1", "submitContact", NoHeader, NoToken, 0, b)
  \/ SubmitSave("h1")
  \/ \E ok \in BOOLEAN : SendEmailSettles("h1", ok)
  \/ Deliver
  \/ \E c \in Clients : WindowExpire(c)

SpecContact == Init /\ [][NextContact]_vars

\* the body of a request is a well-formed contact: first name, last name and
\* message present, and an e-mail address that matches the pattern
WellFormed(body) ==
  /\ Trim(body.firstName) # <<>>
  /\ Trim(body.lastName) # <<>>
  /\ Trim(body.message) # <<>>
  /\ EmailPattern(ToLowerCase(Trim(body.email)))

SubmitStep(r) == r.route = "submitContact" /\ Admitted(r)

\* the run whose response is being written
Answering(h) == running[h].at = "done" /\ running[h].route = resp.route

\* the save of the submission in slot h settles in this step
Saves(h) == running[h].at = "save" /\ running'[h].at # "save"

\* a send of the submission in slot h fails in this step
SendFails(h) ==
  /\ running[h].at \in {"sendAdmin", "sendUser"}
  /\ running'[h].at = "done"
  /\ running'[h].done = running[h].done

\* C8: a contact whose e-mail address does not match the pattern is rejected
\* with a ValidationError, status 400; no contact is stored, no mail is sent.
C8_InvalidEmailRejected400 ==
  [][ ( /\ SubmitStep(resp')
        /\ ~EmailPattern(ToLowerCase(Trim(resp'.req.body.email))) )
      => ( /\ resp'.status = 400
           /\ ~resp'.success
           /\ contacts' = contacts
           /\ outbox' = outbox ) ]_vars

\* C9 as stated: a well-formed contact adds exactly one record, with status
\* "new", and the response reports success true.
C9_WellFormedAlwaysSucceeds ==
  /\ [][ \A h \in Handlers :
           (Saves(h) /\ WellFormed(running[h].req.body))
           => \E d \in contacts' : /\ d \notin contacts
                                   /\ d.status = "new"
                                   /\ contacts' = contacts \cup {d} ]_vars
  /\ []((SubmitStep(resp) /\ WellFormed(resp.req.body)) => resp.success)

\* C9 as amended: the save of a well-formed contact adds exactly one record,
\* with status "new", and the two sends are left to do; the response is 201
\* with success true when both notification mails were sent, and 500 with
\* success false when one of them failed.
C9_WellFormedStored ==
  /\ [][ \A h \in Handlers :
           (Saves(h) /\ WellFormed(running[h].req.body))
           => /\ \E d \in contacts' : /\ d \notin contacts
                                      /\ d.status = "new"
                                      /\ contacts' = contacts \cup {d}
              /\ running'[h].at = "sendAdmin"
              /\ UNCHANGED <<resp, outbox>> ]_vars
  /\ [](\A h \in Handlers :
          (SubmitStep(resp) /\ Answering(h) /\ WellFormed(resp.req.body)) =>
            LET sent == running[h].done = <<"save", "sendAdmin", "sendUser">>
            IN /\ running[h].done[1] = "save"
               /\ sent => (resp.status = 201 /\ resp.success)
               /\ ~sent => (resp.status = 500 /\ ~resp.success))

C9_Witness ==
  /\ resp.route = "submitContact"
  /\ resp.status = 201
  /\ resp.success
  /\ WellFormed(resp.req.body)
  /\ Cardinality(contacts) = 1
  /\ \A d \in contacts : d.status = "new" /\ d.email = EmailPlain
  /\ Len(outbox) = 2

\* C10: when a notification mail fails after the contact was saved, the
\* caller gets the generic 500 and the saved contact stays in the store.
C10_MailFailureKeepsContact ==
  [][ \A h \in Handlers :
        SendFails(h)
        => ( /\ resp'.route = "submitContact"
             /\ resp'.req = running[h].req
             /\ resp'.status = 500
             /\ ~resp'.success
             /\ resp'.message = "There was a problem submitting your form"
             /\ contacts' = contacts
             /\ \E d \in contacts' :
                  d.email = ToLowerCase(Trim(resp'.req.body.email)) ) ]_vars

C10_Witness ==
  /\ resp.route = "submitContact"
  /\ resp.status = 500
  /\ WellFormed(resp.req.body)
  /\ Len(outbox) = 1
  /\ outbox[1].to = AdminAddress
  /\ Cardinality(contacts) = 1

-----------------------------------------------------------------------------
(* The contact form with two submissions under way side by side.           *)

NextSubmit ==
  \/ \E h \in Handlers, b \in ContactBodies :
       /\ hits["c1"] < HitCap
       /\ nextContactId <= MaxContactIds
       /\ BeginRun(h, "c1", "submitContact", NoHeader, NoToken, 0, b)
  \/ \E h \in Handlers : SubmitSave(h)
  \/ \E h \in Handlers, ok \in BOOLEAN : SendEmailSettles(h, ok)
  \/ Deliver
  \/ \E c \in Clients : WindowExpire(c)

SpecSubmit == Init /\ [][NextSubmit]_vars

\* C11: submitContact writes its success response (201, success true) only
\* once the contact is saved and the send to the admin and then the send to
\* the submitter have both completed successfully: the response is written in
\* the step in which the second send resolves, the run has then completed
\* the save and the two sends in that order and none has failed, the contact
\* is in the store, and the mail to the submitter is the last one delivered,
\* after a mail to the admin.
C11_SuccessAfterSaveAndSends ==
  [][ ( /\ resp # resp'
        /\ resp'.route = "submitContact"
        /\ resp'.success )
      => ( /\ resp'.status = 201
           /\ \E h \in Handlers :
                /\ running[h].at = "sendUser"
                /\ running[h].req = resp'.req
                /\ running[h].done = <<"save", "sendAdmin">>
                /\ running'[h].at = "done"
                /\ running'[h].done = <<"save", "sendAdmin", "sendUser">>
           /\ \E d \in contacts :
                d.email = ToLowerCase(Trim(resp'.req.body.email))
           /\ Len(outbox') = Len(outbox) + 1
           /\ outbox'[Len(outbox')].to = resp'.req.body.email
           /\ \E i \in DOMAIN outbox : outbox[i].to = AdminAddress
           /\ UNCHANGED contacts ) ]_vars

\* two submissions side by side: both admin mails are delivered before either
\* mail to a submitter
C11_Witness ==
  /\ resp.route = "submitContact"
  /\ resp.status = 201
  /\ running["h1"].at = "done"
  /\ running["h2"].at = "sendUser"
  /\ Len(outbox) = 3
  /\ outbox[1].to = AdminAddress
  /\ outbox[2].to = AdminAddress
  /\ outbox[3].to = resp.req.body.email
  /\ Cardinality(contacts) = 2

-----------------------------------------------------------------------------
(* The guarded and the public routes under every combination of header    *)
(* and cookie, one request under way at a time.                            *)

ChainHeaders ==
  { NoHeader, Basic, Bearer(NoToken), Bearer(Token("valid", 1)),
    Bearer(Token("valid", 2)), Bearer(Token("expired", 1)),
    Bearer(Token("malformed", 0)) }

ChainCookies ==
  { NoToken, Token("valid", 1), Token("valid", 2), Token("malformed", 0) }

ChainCreateBodies == {b \in CreateBodies : b.title \in {TitleAiOps, TitleSpaced}}

ChainUpdateBodies == {b \in UpdateBodies : b.hasFeatured}

StatusBodies == {[status |-> "contacted"], [status |-> "lost"]}

ContactIds == 0..MaxContactIds

NextChain ==
  \/ \E auth \in ChainHeaders, cookie \in ChainCookies :
       \/ /\ hits["c1"] < HitCap
          /\ BeginRun("h1", "c1", "getProjects", auth, cookie, 0, NoBody)
       \/ \E b \in ChainCreateBodies :
            /\ hits["c1"] < HitCap
            /\ nextProjectId <= MaxProjectIds
            /\ BeginRun("h1", "c1", "createProject", auth, cookie, 0, b)
       \/ \E id \in ProjectIds, b \in ChainUpdateBodies :
            hits["c1"] < HitCap /\ BeginRun("h1", "c1", "updateProject", auth, cookie, id, b)
       \/ \E id \in ProjectIds :
            hits["c1"] < HitCap /\ BeginRun("h1", "c1", "deleteProject", auth, cookie, id, NoBody)
       \/ hits["c1"] < HitCap /\ BeginRun("h1", "c1", "getContacts", auth, cookie, 0, NoBody)
       \/ \E id \in ContactIds, r \in {"getContact", "deleteContact"} :
            hits["c1"] < HitCap /\ BeginRun("h1", "c1", r, auth, cookie, id, NoBody)
       \/ \E id \in ContactIds, b \in StatusBodies :
            hits["c1"] < HitCap /\ BeginRun("h1", "c1", "updateContact", auth, cookie, id, b)
  \/ RunStatic("h1")
  \/ RunProtect("h1")
  \/ RunQuery("h1")
  \/ RunCreate("h1")
  \/ RunFindById("h1")
  \/ RunFindByIdAndUpdate("h1")
  \/ RunRemove("h1")
  \/ RunManage("h1")
  \/ Deliver
  \/ \E c \in Clients : WindowExpire(c)

SpecChain == Init /\ [][NextChain]_vars

\* C12: on a guarded route, a request with an Authorization: Bearer header is
\* judged by the header's token alone, whatever the token cookie holds: it is
\* refused 401 before any controller exactly when the header's token does not
\* verify, and otherwise acts as the user that token names.  The cookie's
\* token is the one judged only when there is no Bearer header.
C12_HeaderTokenDecides ==
  [][ ( /\ resp' # resp
        /\ resp'.route \in GuardedRoutes
        /\ Admitted(resp') )
      => LET header == resp'.req.auth
             judged == IF header.scheme = "Bearer" THEN header.tok
                       ELSE resp'.req.cookie
             refused == resp'.status = 401 /\ ~resp'.ctrl
         IN /\ judged.kind # "valid" => refused
            /\ judged.kind = "valid" => (~refused /\ resp'.user = FindUser(judged.uid)) ]_vars

C12_Witness ==
  /\ resp.route = "deleteProject"
  /\ resp.req.auth = Bearer(Token("valid", 2))
  /\ resp.req.cookie = Token("valid", 1)
  /\ users[1] = "admin"
  /\ resp.user = FindUser(2)
  /\ resp.status = 403
  /\ \E p \in projects : p.id = resp.req.id

\* C13: for every list of allowed roles and every stored user, authorize
\* passes the user exactly when the user's role is in the list and otherwise
\* fails with 403; on the guarded routes, which all mount authorize('admin'),
\* the step in which protect has found the user and authorize runs on it
\* hands on to the controller when the user is an admin, and otherwise ends
\* the request with 403, no controller run and nothing stored changed.
C13_AuthorizeByRole ==
  /\ [](\A roles \in SUBSET Roles : \A u \in UserIds :
          FindUser(u) # NullUser =>
            LET a == authorize(roles, FindUser(u))
            IN /\ a.ok <=> users[u] \in roles
               /\ ~a.ok => errorHandler(a.err).status = 403)
  /\ [][ \A h \in Handlers :
           LET r   == running[h]
               tok == ExtractToken(r.req.auth, r.req.cookie)
           IN ( /\ r.at = "protect"
                /\ running'[h] # r
                /\ FindUser(tok.uid) # NullUser )
              => IF FindUser(tok.uid).role = "admin"
                 THEN /\ running'[h].at = FirstStage(r.route)
                      /\ running'[h].done = <<"protect", "authorize">>
                      /\ running'[h].user = FindUser(tok.uid)
                      /\ resp' = Idle
                      /\ UNCHANGED <<users, projects, contacts>>
                 ELSE /\ resp'.status = 403
                      /\ ~resp'.success
                      /\ ~resp'.ctrl
                      /\ resp'.route = r.route
                      /\ running'[h].at = "done"
                      /\ running'[h].done = <<"protect">>
                      /\ UNCHANGED <<users, projects, contacts>> ]_vars

C13_Witness ==
  /\ resp.route = "createProject"
  /\ resp.status = 403
  /\ ~resp.ctrl
  /\ resp.user # NullUser
  /\ resp.user.role = "editor"
  /\ running["h1"].at = "done"
  /\ running["h1"].done = <<"protect">>

\* C14: every route that mounts authorize mounts protect before it and the
\* controller after both; while a request is under way on such a route,
\* authorize has run only once protect has completed without error (the
\* request's token verifies and req.user is the user it names), and the
\* controller awaits an operation, and has answered, only once protect and
\* then authorize have both completed without error.
C14_ProtectBeforeAuthorize ==
  /\ [](\A r \in GuardedRoutes :
          \E i, j, k \in DOMAIN Mounted(r) :
            /\ i < j /\ j < k
            /\ Mounted(r)[i] = "protect"
            /\ Mounted(r)[j] = "authorize"
            /\ Mounted(r)[k] = "controller")
  /\ [](\A h \in Handlers :
          LET r   == running[h]
              tok == ExtractToken(r.req.auth, r.req.cookie)
          IN r.route \in GuardedRoutes =>
               /\ r.at = "static" => r.done = <<>>
               /\ r.at = "protect" => (r.done = <<>> /\ JwtVerifies(tok))
               /\ "authorize" \in Range(r.done) =>
                    /\ r.done = <<"protect", "authorize">>
                    /\ JwtVerifies(tok)
                    /\ r.user # NullUser
                    /\ r.user.id = tok.uid
               /\ r.at \notin {"static", "protect", "done"} =>
                    /\ r.done = <<"protect", "authorize">>
                    /\ r.user.role = "admin")
  /\ []((resp.route \in GuardedRoutes /\ resp.ctrl) =>
          \E h \in Handlers :
            /\ running[h].at = "done"
            /\ running[h].req = resp.req
            /\ running[h].done = <<"protect", "authorize">>)

C14_Witness ==
  /\ running["h1"].route = "updateContact"
  /\ running["h1"].at = "manage"
  /\ running["h1"].done = <<"protect", "authorize">>
  /\ running["h1"].req.auth = Basic
  /\ running["h1"].user = FindUser(1)

-----------------------------------------------------------------------------
(* The project controllers on their own: each exported controller applied  *)
(* to a request whose req.user is any stored user, with errorHandler       *)
(* behind it, whatever middleware a route puts in front of it.             *)

InvokeController(route, u, id, body) ==
  LET user == FindUser(u)
      req  == Req(NoHeader, NoToken, id, body)
  IN /\ resp = Idle
     /\ user # NullUser
     /\ running["h1"] = NotRunning
     /\ route = "createProject" => nextProjectId <= MaxProjectIds
     /\ running' = [running EXCEPT !["h1"] = Run(route, "c1", req, user, FirstStage(route))]
     /\ UNCHANGED <<page, users, projects, nextProjectId, contacts, nextContactId, outbox, hits,
                    resp>>

NextController ==
  \/ \E u \in UserIds, b \in CreateBodies : InvokeController("createProject", u, 0, b)
  \/ \E u \in UserIds, id \in ProjectIds, b \in UpdateBodies :
       InvokeController("updateProject", u, id, b)
  \/ \E u \in UserIds, id \in ProjectIds : InvokeController("deleteProject", u, id, NoBody)
  \/ RunCreate("h1")
  \/ RunFindById("h1")
  \/ RunFindByIdAndUpdate("h1")
  \/ RunRemove("h1")
  \/ Deliver

SpecController == Init /\ [][NextController]_vars

\* C15: when updateProject or deleteProject runs for an acting user who is
\* neither the createdBy of the stored project nor an admin, its ownership
\* check fails with status 403 and the project is neither changed nor removed.
C15_OwnershipCheck403 ==
  [][ ( /\ resp' # resp
        /\ resp'.route \in {"updateProject", "deleteProject"}
        /\ resp'.ctrl
        /\ resp'.user.role # "admin"
        /\ \E p \in projects :
             p.id = resp'.req.id /\ p.createdBy # resp'.user.id )
      => (resp'.status = 403 /\ projects' = projects) ]_vars

-----------------------------------------------------------------------------
(* The server handling the contact form and the contact management routes. *)

NextManage ==
  \/ /\ hits["c1"] < HitCap
     /\ nextContactId <= MaxContactIds
     /\ BeginRun("h1", "c1", "submitContact", NoHeader, NoToken, 0,
                 ContactBody(NameAnn, EmailPlain, TextHello))
  \/ SubmitSave("h1")
  \/ SendEmailSettles("h1", TRUE)
  \/ \E cr \in Creds :
       \/ hits["c1"] < HitCap
            /\ BeginRun("h1", "c1", "getContacts", cr[1], cr[2], 0, NoBody)
       \/ \E id \in ContactIds, r \in {"getContact", "deleteContact"} :
            hits["c1"] < HitCap /\ BeginRun("h1", "c1", r, cr[1], cr[2], id, NoBody)
       \/ \E id \in ContactIds, b \in StatusBodies :
            hits["c1"] < HitCap /\ BeginRun("h1", "c1", "updateContact", cr[1], cr[2], id, b)
  \/ RunStatic("h1")
  \/ RunProtect("h1")
  \/ RunManage("h1")
  \/ Deliver
  \/ \E c \in Clients : WindowExpire(c)
  \/ \E u \in UserIds, r \in Roles : SetUserRole(u, r)

SpecManage == Init /\ [][NextManage]_vars

\* C16: a contact management request (GET list, GET one, PUT, DELETE on
\* /api/contact) of an authenticated admin or of an authenticated editor is
\* permitted, that is, it reaches the controller; every other caller is
\* rejected before it.
C16_AdminAndEditorManage ==
  [][ ( /\ resp' # resp
        /\ resp'.route \in ContactRoutes
        /\ Admitted(resp') )
      => LET s == resp'.user
         IN resp'.ctrl <=> (s # NullUser /\ s.role \in {"admin", "editor"}) ]_vars

-----------------------------------------------------------------------------
(* The central error handler on its own: each error that a middleware or a *)
(* controller of the application can hand to next is handed to it.         *)

\* express.json() on a malformed JSON body: the body parser's error carries
\* statusCode 400
BodyParseError == [name |-> "SyntaxError", code |-> 0, statusCode |-> 400,
                   message |-> "Unexpected token in JSON"]

\* the database connection fails under a query
MongoNetworkError == [name |-> "MongoNetworkError", code |-> 0, statusCode |-> 0,
                      message |-> "connection timed out"]

\* an error thrown without a message
BareError == [name |-> "Error", code |-> 0, statusCode |-> 0, message |-> ""]

RaisedErrors ==
  { ErrorResponse("Not authorized to access this route", 401),
    ErrorResponse("User role is not authorized to access this route", 403),
    ErrorResponse("Project not found", 404),
    ErrorResponse("User is not authorized to update this project", 401),
    ErrorResponse("User is not authorized to delete this project", 401),
    ErrorResponse("Only image files are allowed", 400),
    ErrorResponse("Please upload a file", 400),
    CastError,
    DuplicateKeyError,
    ValidationError("Project title is required"),
    ValidationError("Title cannot be more than 100 characters"),
    ValidationError("At least one category is required"),
    ValidationError("not a valid enum value for path categories"),
    TypeError,
    BodyParseError,
    MongoNetworkError,
    BareError }

ApiRoutes ==
  {"getProjects", "createProject", "updateProject", "deleteProject", "submitContact"}
    \cup ContactRoutes

\* next(err) while a request of client c to route is handled: express skips
\* to errorHandler, which writes the response
HandleError(route, c, err) ==
  /\ resp = Idle
  /\ resp' = Failed(route, c, Req(NoHeader, NoToken, 0, NoBody), NullUser, FALSE, err)
  /\ UNCHANGED <<page, running, users, projects, nextProjectId, contacts, nextContactId, outbox, hits>>

NextErrors ==
  \/ \E route \in ApiRoutes, c \in Clients, err \in RaisedErrors : HandleError(route, c, err)
  \/ Deliver

SpecErrors == Init /\ [][NextErrors]_vars

\* an instance of class ErrorResponse
IsErrorResponse(err) == err.name = "Error" /\ err.statusCode # 0

\* C17 as stated: every response of the error handler has success false and
\* the error's message, and its status is 404 for a CastError, 400 with
\* 'Duplicate field value entered' for code 11000, 400 for a ValidationError,
\* the error's own statusCode for an ErrorResponse, and 500 for any other error.
C17_StatusByClass ==
  resp.err # NoErr =>
    /\ ~resp.success
    /\ resp.error # ""
    /\ IF resp.err.name = "ValidationError" THEN resp.status = 400 /\ resp.error = resp.err.message
       ELSE IF resp.err.code = 11000
       THEN resp.status = 400 /\ resp.error = "Duplicate field value entered"
       ELSE IF resp.err.name = "CastError" THEN resp.status = 404
       ELSE IF IsErrorResponse(resp.err)
       THEN resp.status = resp.err.statusCode /\ resp.error = resp.err.message
       ELSE resp.status = 500

\* C17 amended: as stated, except that any error that carries a statusCode of
\* its own, an ErrorResponse or not (the body parser's error for malformed
\* JSON carries 400), is answered with that statusCode and its message; 500
\* is the status of the errors that carry none.
C17_StatusByClassOrOwnCode ==
  resp.err # NoErr =>
    /\ ~resp.success
    /\ resp.error # ""
    /\ IF resp.err.name = "ValidationError" THEN resp.status = 400 /\ resp.error = resp.err.message
       ELSE IF resp.err.code = 11000
       THEN resp.status = 400 /\ resp.error = "Duplicate field value entered"
       ELSE IF resp.err.name = "CastError" THEN resp.status = 404
       ELSE IF resp.err.statusCode # 0
       THEN resp.status = resp.err.statusCode /\ resp.error = resp.err.message
       ELSE /\ resp.status = 500
            /\ resp.error = IF resp.err.message # "" THEN resp.err.message
                            ELSE "Server Error"

C17_Witness ==
  /\ resp.err = BodyParseError
  /\ resp.status = 400
  /\ ~resp.success
  /\ resp.error = BodyParseError.message

-----------------------------------------------------------------------------
(* Claims on the failure responses of the controllers.                     *)

\* C18: every failure response of a controller is the work of the central
\* error handler: the controller handed an error to next, and the body is the
\* envelope {success: false, error: <message>} with no other key.
C18_FailuresViaErrorHandler ==
  (resp.ctrl /\ ~resp.success /\ resp.status >= 400) =>
     /\ resp.err # NoErr
     /\ resp.error = errorHandler(resp.err).error
     /\ resp.error # ""
     /\ resp.message = ""

-----------------------------------------------------------------------------
(* Claims on the public read routes.                                       *)

\* C19: GET /api/projects/featured is answered 200 with exactly the stored
\* projects whose featured is true as data, no other project among them, and
\* their number as count; it changes no stored project.
C19_FeaturedExactly ==
  [][ ( /\ resp' # resp
        /\ resp'.route = "getFeaturedProjects"
        /\ Admitted(resp') )
      => ( /\ resp'.status = 200
           /\ resp'.success
           /\ \A p \in projects : p \in resp'.data <=> p.featured
           /\ resp'.data \subseteq projects
           /\ resp'.count = Cardinality({p \in projects : p.featured})
           /\ projects' = projects ) ]_vars

C19_Witness ==
  /\ resp.route = "getFeaturedProjects"
  /\ resp.status = 200
  /\ resp.count = 1
  /\ Cardinality(projects) = 2
  /\ \E p \in projects : p.featured /\ resp.data = {p}
  /\ \E p \in projects : ~p.featured

\* C20: GET /api/projects/:id with a key that is the slug or the id of a
\* stored project is answered 200 with that project; it is answered 404 only
\* when no stored project has the key as its slug or its id.
C20_GetBySlugOrId ==
  [][ ( /\ resp' # resp
        /\ resp'.route = "getProject"
        /\ Admitted(resp') )
      => LET key == resp'.req.body.key
             named == {p \in projects : \/ key.kind = "id" /\ p.id = key.id
                                        \/ key.kind = "text" /\ p.slug = key.text}
         IN /\ named # {} => (resp'.status = 200 /\ resp'.data = named)
            /\ resp'.status = 404 => named = {} ]_vars

-----------------------------------------------------------------------------
(* Claims on the writes of projects.                                       *)

\* C21: a create that succeeds stores one project whose createdBy is the id
\* of the authenticated acting user, whatever createdBy the payload carried,
\* and it succeeds only for an acting user of role admin; a create of an
\* authenticated user of another role is answered 403 and stores nothing.
\* The acting user is req.user, with the role protect has read for it.
C21_CreatedByActingAdmin ==
  [][ ( /\ resp' # resp
        /\ resp'.route = "createProject"
        /\ Admitted(resp') )
      => LET s == resp'.user
         IN /\ resp'.status = 201 =>
                 /\ s # NullUser
                 /\ s.role = "admin"
                 /\ Cardinality(projects' \ projects) = 1
                 /\ \A d \in projects' \ projects :
                      d.createdBy = s.id /\ resp'.data = {d}
            /\ (s # NullUser /\ s.role # "admin") =>
                 (resp'.status = 403 /\ projects' = projects) ]_vars

C21_Witness ==
  /\ resp.route = "createProject"
  /\ resp.status = 201
  /\ resp.user.role = "admin"
  /\ resp.req.body.createdBy # resp.user.id
  /\ \E d \in projects : resp.data = {d} /\ d.createdBy = resp.user.id

-----------------------------------------------------------------------------
(* The server handling creates and updates that set categories.            *)

CategoryCreateBodies ==
  { [title |-> TitleAiOps,  categories |-> <<"AI">>,         featured |-> FALSE, createdBy |-> 1],
    [title |-> TitleSpaced, categories |-> <<"Web","Mobile">>, featured |-> FALSE, createdBy |-> 1],
    [title |-> TitleDashed, categories |-> <<>>,             featured |-> FALSE, createdBy |-> 1],
    [title |-> TitleDashed, categories |-> <<"Games">>,      featured |-> FALSE, createdBy |-> 1],
    [title |-> TitleDashed, categories |-> <<"AI","ai">>,    featured |-> FALSE, createdBy |-> 1] }

CategoryUpdate(categories) ==
  [hasTitle |-> FALSE, title |-> <<>>, hasFeatured |-> FALSE, featured |-> FALSE,
   categories |-> categories]

CategoryUpdateBodies ==
  { CategoryUpdate(<<"UI/UX">>), CategoryUpdate(<<"Mobile","AI">>), CategoryUpdate(<<>>),
    CategoryUpdate(<<"Games">>), CategoryUpdate(<<"Web","web">>) }

CategoryCreds ==
  { <<Bearer(Token("valid", 1)), NoToken>>, <<NoHeader, Token("valid", 2)>> }

NextCategories ==
  \/ \E cr \in CategoryCreds, b \in CategoryCreateBodies :
       /\ hits["c1"] < HitCap
       /\ nextProjectId <= MaxProjectIds
       /\ BeginRun("h1", "c1", "createProject", cr[1], cr[2], 0, b)
  \/ \E cr \in CategoryCreds, id \in ProjectIds, b \in CategoryUpdateBodies :
       hits["c1"] < HitCap /\ BeginRun("h1", "c1", "updateProject", cr[1], cr[2], id, b)
  \/ \E cr \in CategoryCreds, id \in ProjectIds :
       hits["c1"] < HitCap /\ BeginRun("h1", "c1", "deleteProject", cr[1], cr[2], id, NoBody)
  \/ RunProtect("h1")
  \/ RunCreate("h1")
  \/ RunFindById("h1")
  \/ RunFindByIdAndUpdate("h1")
  \/ RunRemove("h1")
  \/ Deliver
  \/ \E c \in Clients : WindowExpire(c)

SpecCategories == Init /\ [][NextCategories]_vars

\* the categories a project may carry: at least one, each of the four of the enum
GoodCategories(categories) ==
  /\ categories # <<>>
  /\ \A i \in DOMAIN categories : categories[i] \in {"AI", "Mobile", "Web", "UI/UX"}

\* C22: in every reachable state the categories of each stored project are at
\* least one and all among AI, Mobile, Web, UI/UX; a create, or an update of
\* a stored project, by an admin, whose categories are none or hold a value
\* outside these four, is answered 400 and leaves the projects as they were.
C22_CategoriesWithinEnum ==
  /\ [](\A p \in projects : GoodCategories(p.categories))
  /\ [][ ( /\ resp' # resp
           /\ resp'.route \in {"createProject", "updateProject"}
           /\ Admitted(resp')
           /\ resp'.user # NullUser
           /\ resp'.user.role = "admin"
           /\ resp'.route = "updateProject" => \E p \in projects : p.id = resp'.req.id
           /\ ~GoodCategories(resp'.req.body.categories) )
         => ( /\ resp'.status = 400
              /\ ~resp'.success
              /\ projects' = projects ) ]_vars

-----------------------------------------------------------------------------
(* The image upload: multer with a file filter and a size limit, and the   *)
(* controller uploadProjectImage around it.                                *)

FileSizeLimit == 5000000

\* s.includes(w): w occurs in s as a run of consecutive characters
Includes(s, w) ==
  \E i \in 1..(Len(s) - Len(w) + 1) : SubSeq(s, i, i + Len(w) - 1) = w

\* /jpeg|jpg|png|webp/.test(s): the pattern has no anchors
FileTypes(s) ==
  \/ Includes(s, <<"j","p","e","g">>)
  \/ Includes(s, <<"j","p","g">>)
  \/ Includes(s, <<"p","n","g">>)
  \/ Includes(s, <<"w","e","b","p">>)

\* Position of the last character of s, at or before i, that is the
\* separator when sep is TRUE and is not the separator when sep is FALSE; 0 when
\* there is none.
RECURSIVE LastAt(_, _, _)
LastAt(s, i, sep) ==
  IF i < 1 THEN 0
  ELSE IF (s[i] = "/") = sep THEN i ELSE LastAt(s, i - 1, sep)

\* path.extname(name) of a POSIX build: trailing separators are ignored and
\* the last segment of the path is looked at; the result runs from the last
\* '.' of the segment to its end, and is empty when the segment has no '.',
\* when its last '.' is its first character and when the segment is '..'
ExtName(name) ==
  LET end       == LastAt(name, Len(name), FALSE)
      startPart == LastAt(name, end, TRUE) + 1
      seg       == SubSeq(name, startPart, end)
      startDot  == CHOOSE i \in 0..Len(seg) :
                     /\ i > 0 => seg[i] = "."
                     /\ \A j \in (i + 1)..Len(seg) : seg[j] # "."
  IN IF startDot = 0 \/ startDot = 1 \/ seg = <<".", ".">> THEN <<>>
     ELSE SubSeq(seg, startDot, Len(seg))

NoFile == [originalname |-> <<>>, mimetype |-> <<>>, size |-> -1]

File(originalname, mimetype, size) ==
  [originalname |-> originalname, mimetype |-> mimetype, size |-> size]

\* checkFileType(file, cb): TRUE for cb(null, true)
checkFileType(file) ==
  LET extname  == FileTypes(ToLowerCase(ExtName(file.originalname)))
      mimetype == FileTypes(file.mimetype)
  IN mimetype /\ extname

\* upload(req, res, cb): the error multer hands to the callback, NoErr when
\* it stored the file or the request had none
upload(file) ==
  IF file = NoFile THEN NoErr
  ELSE IF ~checkFileType(file)
  THEN [name |-> "Error", code |-> 0, statusCode |-> 0,
        message |-> "Only image files are allowed"]
  ELSE IF file.size > FileSizeLimit
  THEN [name |-> "MulterError", code |-> 0, statusCode |-> 0, message |-> "File too large"]
  ELSE NoErr

\* exports.uploadProjectImage; stamp is Date.now() in the stored file's name
uploadProjectImage(file, stamp) ==
  LET err == upload(file)
  IN IF err # NoErr
     THEN Outcome(projects, ErrorResponse(err.message, 400), 0, -1, {})
     ELSE IF file = NoFile
     THEN Outcome(projects, ErrorResponse("Please upload a file", 400), 0, -1, {})
     ELSE Outcome(projects, NoErr, 200, -1,
                  {[prefix |-> "/uploads/projects/project-", stamp |-> stamp,
                    ext |-> ExtName(file.originalname)]})

\* a request with the multipart field 'image' reaches uploadProjectImage: the
\* controller calls upload(req, res, cb) and returns, and multer reads the
\* body while other requests and callbacks run
UploadProjectImage(h, c, file) ==
  LET req == Req(NoHeader, NoToken, 0, [file |-> file])
  IN /\ resp = Idle
     /\ running[h] = NotRunning
     /\ running' = [running EXCEPT ![h] = Run("uploadProjectImage", c, req, NullUser, "upload")]
     /\ UNCHANGED <<page, resp, users, projects, nextProjectId, contacts, nextContactId, outbox, hits>>

\* multer has read the body and calls the callback of upload, which answers;
\* stamp is Date.now() at the naming of the stored file
RunUpload(h, stamp) ==
  LET r == running[h]
  IN /\ resp = Idle
     /\ r.at = "upload"
     /\ resp' = Answer(r.route, r.client, r.req, NullUser,
                       uploadProjectImage(r.req.body.file, stamp))
     /\ running' = Ended(h)
     /\ UNCHANGED <<page, users, projects, nextProjectId, contacts, nextContactId, outbox, hits>>

UploadNames ==
  { <<"a",".","j","p","g">>, <<"a",".","J","P","E","G">>, <<"a",".","p","n","g">>,
    <<"a",".","w","e","b","p">>, <<"a",".","p","h","p",".","j","p","g">>,
    <<"a",".","j","p","g","x">>, <<"a",".","p","n","g",".","p","h","p">>,
    <<"a",".","p","d","f">>, <<"j","p","g">>, <<".","p","n","g">>,
    <<"d","i","r","/",".","p","n","g">>, <<"a",".","p","n","g","/">>, <<".",".">> }

UploadMimes ==
  { <<"i","m","a","g","e","/","j","p","e","g">>, <<"i","m","a","g","e","/","p","n","g">>,
    <<"i","m","a","g","e","/","w","e","b","p">>,
    <<"t","e","x","t","/","x","-","j","p","g","s">>,
    <<"a","p","p","l","i","c","a","t","i","o","n","/","p","d","f">> }

UploadSizes == {1, FileSizeLimit, FileSizeLimit + 1}

UploadFiles ==
  {NoFile} \cup
    {File(n, m, z) : n \in UploadNames, m \in UploadMimes, z \in UploadSizes}

UploadStamps == {1, 2}

\* the files of a second upload, under way beside the first
UploadFilesBeside ==
  {NoFile, File(<<"a",".","j","p","g">>, <<"i","m","a","g","e","/","j","p","e","g">>, 1)}

NextUpload ==
  \/ \E f \in UploadFiles : UploadProjectImage("h1", "c1", f)
  \/ \E f \in UploadFilesBeside : UploadProjectImage("h2", "c2", f)
  \/ \E h \in Handlers, t \in UploadStamps : RunUpload(h, t)
  \/ Deliver

SpecUpload == Init /\ [][NextUpload]_vars

ImageExtensions ==
  { <<".","j","p","e","g">>, <<".","j","p","g">>, <<".","p","n","g">>,
    <<".","w","e","b","p">> }

ImageContentTypes ==
  { <<"i","m","a","g","e","/","j","p","e","g">>, <<"i","m","a","g","e","/","j","p","g">>,
    <<"i","m","a","g","e","/","p","n","g">>, <<"i","m","a","g","e","/","w","e","b","p">> }

\* C23: the upload answers 200 with a stored-path reference only for a file
\* whose extension is one of jpeg, jpg, png, webp, whose declared content type
\* is one of these four image types and whose size is at most 5 MB; every
\* other upload is answered 400 and returns no stored-path reference.
C23_UploadOnlyImages ==
  resp.route = "uploadProjectImage" =>
    LET file == resp.req.body.file
        conforming ==
          /\ file # NoFile
          /\ ToLowerCase(ExtName(file.originalname)) \in ImageExtensions
          /\ file.mimetype \in ImageContentTypes
          /\ file.size <= FileSizeLimit
    IN /\ resp.status = 200 => conforming
       /\ ~conforming => (resp.status = 400 /\ resp.data = {})

-----------------------------------------------------------------------------
(* Project writes side by side: two handler slots on the write routes.      *)

TitleV2 == <<"V","2">>

RaceCreateBodies ==
  { [title |-> TitleAiOps, categories |-> <<"AI">>, featured |-> FALSE, createdBy |-> 2] }

RaceBodies ==
  { [hasTitle |-> TRUE,  title |-> TitleDashed, hasFeatured |-> FALSE, featured |-> FALSE],
    [hasTitle |-> TRUE,  title |-> TitleV2,     hasFeatured |-> TRUE,  featured |-> TRUE],
    [hasTitle |-> TRUE,  title |-> TitleBlank,  hasFeatured |-> FALSE, featured |-> FALSE] }

RaceCreds ==
  { <<Bearer(Token("valid", 1)), NoToken>>, <<NoHeader, Token("valid", 2)>> }

NextRace ==
  \/ \E r \in Roles : SetUserRole(2, r)
  \/ \E h \in Handlers, b \in RaceCreateBodies :
       /\ hits["c1"] < HitCap
       /\ nextProjectId <= MaxProjectIds
       /\ BeginRun(h, "c1", "createProject", Bearer(Token("valid", 1)), NoToken, 0, b)
  \/ \E h \in Handlers : RunCreate(h)
  \/ \E h \in Handlers, cr \in RaceCreds, id \in {BadId, nextProjectId - 1}, b \in RaceBodies :
       hits["c1"] < HitCap /\ BeginRun(h, "c1", "updateProject", cr[1], cr[2], id, b)
  \/ \E h \in Handlers, cr \in RaceCreds, id \in {BadId, nextProjectId - 1} :
       hits["c1"] < HitCap /\ BeginRun(h, "c1", "deleteProject", cr[1], cr[2], id, NoBody)
  \/ \E h \in Handlers : RunProtect(h)
  \/ \E h \in Handlers : RunFindById(h)
  \/ \E h \in Handlers : RunFindByIdAndUpdate(h)
  \/ \E h \in Handlers : RunRemove(h)
  \/ Deliver
  \/ WindowExpire("c1")

SpecRace == Init /\ [][NextRace]_vars

\* the update in slot h has answered: it had read the project and passed the
\* checks on it, and its body passes the update validators
Updated(h) ==
  /\ resp.route = "updateProject"
  /\ running[h].route = "updateProject"
  /\ running[h].at = "done"
  /\ running[h].req = resp.req
  /\ running[h].doc # NullProject
  /\ UpdateValidation(resp.req.body) = ""

\* C24: two updates of one project that run side by side both answer 200
\* under every interleaving of their reads, checks and writes, and each
\* field that both have written holds the value of the update that wrote
\* last: an update that has read the project answers 200 whatever was
\* written to the project between its read and its write, and when it has
\* written, the fields of its body hold its values on the stored project,
\* which is the data of its response.
C24_LastWriteWins ==
  \A h \in Handlers :
    Updated(h) =>
      /\ resp.status = 200
      /\ resp.data # {} =>
           LET stored == FindProject(resp.req.id)
               b      == resp.req.body
           IN /\ stored # NullProject
              /\ resp.data = {stored}
              /\ b.hasTitle => stored.title = Trim(b.title)
              /\ b.hasFeatured => stored.featured = b.featured

\* the update in h1 read the project as it was created; the other update
\* then set its title and featured, and h1 has written its own title last
C24_Witness ==
  /\ Updated("h1")
  /\ resp.status = 200
  /\ resp.req.body.hasTitle
  /\ ~resp.req.body.hasFeatured
  /\ running["h1"].doc.title = TitleAiOps
  /\ ~running["h1"].doc.featured
  /\ LET stored == FindProject(resp.req.id)
     IN /\ stored.featured
        /\ stored.title = Trim(resp.req.body.title)
        /\ stored.title # TitleV2

\* C25: under every interleaving of an update and a delete of one project, an
\* update that answers 200 returns the stored updated project as its data,
\* an update whose write finds the project deleted answers 404, and no
\* update stores a project again that a delete has removed.
C25_UpdateAfterDeleteIs404 ==
  /\ []((resp.route = "updateProject" /\ resp.status = 200) =>
          (resp.data # {} /\ resp.data \subseteq projects))
  /\ [][ \A h \in Handlers :
           ( /\ running[h].at = "findByIdAndUpdate"
             /\ running'[h].at = "done"
             /\ UpdateValidation(running[h].req.body) = ""
             /\ FindProject(running[h].req.id) = NullProject )
           => resp'.status = 404 ]_vars
  /\ [][ \A h \in Handlers :
           (running[h].at = "findByIdAndUpdate" /\ running'[h].at = "done")
             => {p.id : p \in projects'} \subseteq {p.id : p \in projects} ]_vars

-----------------------------------------------------------------------------
(* Tokens that outlive their user.  A token stays valid until it expires,  *)
(* also after the User document of its id has been deleted.                *)

\* a stored User is deleted (user administration)
RemoveUser(u) ==
  /\ users[u] # "absent"
  /\ users' = [users EXCEPT ![u] = "absent"]
  /\ UNCHANGED <<page, running, projects, nextProjectId, contacts, nextContactId, outbox, hits,
                 resp>>

UsersCreds ==
  { <<Bearer(Token("valid", 1)), NoToken>>, <<NoHeader, Token("valid", 2)>>,
    <<Bearer(Token("expired", 1)), NoToken>>, <<NoHeader, NoToken>> }

NextUsers ==
  \/ \E cr \in UsersCreds :
       \/ \E b \in ChainCreateBodies :
            /\ hits["c1"] < HitCap
            /\ nextProjectId <= MaxProjectIds
            /\ BeginRun("h1", "c1", "createProject", cr[1], cr[2], 0, b)
       \/ \E id \in ProjectIds :
            hits["c1"] < HitCap /\ BeginRun("h1", "c1", "deleteProject", cr[1], cr[2], id, NoBody)
       \/ hits["c1"] < HitCap /\ BeginRun("h1", "c1", "getContacts", cr[1], cr[2], 0, NoBody)
  \/ RunStatic("h1")
  \/ RunProtect("h1")
  \/ RunCreate("h1")
  \/ RunFindById("h1")
  \/ RunRemove("h1")
  \/ RunManage("h1")
  \/ Deliver
  \/ WindowExpire("c1")
  \/ \E u \in UserIds : RemoveUser(u)

SpecUsers == Init /\ [][NextUsers]_vars

\* C26: whenever protect hands the request on, req.user is a stored User and
\* never null: a request whose token verifies but whose user id resolves to
\* no stored User is answered 401 by protect and reaches neither authorize
\* nor a controller.
C26_ProtectNeverPassesNull ==
  /\ [](\A h \in Handlers :
          "protect" \in Range(running[h].done) => running[h].user # NullUser)
  /\ [][ \A h \in Handlers :
           LET r   == running[h]
               tok == ExtractToken(r.req.auth, r.req.cookie)
           IN ( /\ r.at = "protect"
                /\ running'[h] # r
                /\ FindUser(tok.uid) = NullUser )
              => ( /\ resp'.status = 401
                   /\ running'[h].at = "done"
                   /\ running'[h].done = <<>> ) ]_vars

-----------------------------------------------------------------------------
(* The project router.  The path of a GET under /api/projects is the        *)
(* sequence of its segments, each a key as in GET /:id; the router tries    *)
(* its routes in the order of their registration and runs the first whose   *)
(* path matches.                                                            *)

GetPaths ==
  { <<>>,
    <<TextKey(SegFeatured)>>,
    <<TextKey(<<"F","e","a","t","u","r","e","d">>)>>,
    <<IdKey(1)>>,
    <<TextKey(SegCategory)>>,
    <<TextKey(SegCategory), TextKey(<<"W","e","b">>)>>,
    <<TextKey(SegCategory), TextKey(<<"A","I">>)>>,
    <<TextKey(SegCategory), TextKey(SegFeatured)>>,
    <<TextKey(SegCategory), IdKey(1)>>,
    <<TextKey(SegFeatured), IdKey(1)>>,
    <<TextKey(SegCategory), TextKey(<<"U","I">>), TextKey(<<"U","X">>)>> }

NextRoutes ==
  \/ \E b \in CreateBodies :
       /\ hits["c1"] < HitCap
       /\ nextProjectId <= MaxProjectIds
       /\ BeginRun("h1", "c1", "createProject", Bearer(Token("valid", 1)), NoToken, 0, b)
  \/ RunProtect("h1")
  \/ RunCreate("h1")
  \/ \E path \in GetPaths :
       /\ hits["c1"] < HitCap
       /\ BeginRun("h2", "c1", "getPath", NoHeader, NoToken, 0, [path |-> path])
  \/ RunStatic("h2")
  \/ RunQuery("h2")
  \/ Deliver
  \/ WindowExpire("c1")

SpecRoutes == Init /\ [][NextRoutes]_vars

\* C27: GET /api/projects/featured is always answered by getFeaturedProjects
\* and GET /api/projects/category/:category by getProjectsByCategory; the
\* route '/:id' takes neither of them.
C27_FeaturedAndCategoryRouted ==
  [][ ( /\ resp' # resp
        /\ Admitted(resp')
        /\ "path" \in DOMAIN resp'.req.body )
      => LET path == resp'.req.body.path
         IN /\ path = <<TextKey(SegFeatured)>> =>
                 /\ resp'.route = "getFeaturedProjects"
                 /\ resp'.status = 200
                 /\ resp'.data = {p \in projects : p.featured}
            /\ (Len(path) = 2 /\ path[1] = TextKey(SegCategory)) =>
                 /\ resp'.route = "getProjectsByCategory"
                 /\ resp'.status = 200
                 /\ resp'.data = {p \in projects :
                                    \E i \in DOMAIN p.categories :
                                      CategoryText(p.categories[i]) = ParamText(path[2])} ]_vars

\* /featured has been answered with the one featured project of two stored
C27_Witness ==
  /\ resp.route = "getFeaturedProjects"
  /\ resp.req.body.path = <<TextKey(SegFeatured)>>
  /\ Cardinality(resp.data) = 1
  /\ Cardinality(projects) = 2

-----------------------------------------------------------------------------------------------------------------------------------------------------
(* The scripts of the page, main.js and app.js: the testimonial slider and *)
(* the parallax.  Each action is one event with every listener the scripts *)
(* have registered for it run to its end; event names the event handled    *)
(* last.  On a page with both scripts the two sliders keep the same index, *)
(* and both write the same classes.                                        *)

MaxSlides == 3
MaxScroll == 2
DefaultSpeedHundredths == 20

\* showSlide(idx): toggle 'active' on every slide and dot by i === idx, and
\* show or hide the back button
showSlide(p, idx) ==
  [p EXCEPT !.slideActive = {i \in 0..(p.n - 1) : i = idx},
            !.dotActive = {i \in 0..(p.n - 1) : i = idx},
            !.backDisplay = IF idx = 0 THEN "none" ELSE "flex"]

NextIndexNoWrap(current, n) == current + 1

\* (current + 1) % slides.length
NextIndex(current, n) == (current + 1) % n

\* (current - 1 + slides.length) % slides.length
BackIndex(current, n) == (current - 1 + n) % n

\* DOMContentLoaded on a page with n slides and n dots that includes the
\* scripts given: each script's slider shows slide 0; main.js appends the ten
\* circles when the page has the container .expertise-circles and registers
\* its scroll listeners; app.js collects the parallax elements the document
\* holds when its handler runs (the circles of main.js only when main.js ran
\* first) and registers its scroll listener
LoadPage(n, scripts, container, mainFirst) ==
  LET circles == IF "main" \in scripts /\ container THEN DOMAIN CircleData ELSE {}
      els     == IF "app" \notin scripts THEN {}
                 ELSE ParallaxEls \cup (IF mainFirst THEN circles ELSE {})
  IN /\ ~page.loaded
     /\ scripts # {}
     /\ page' = showSlide([NotLoaded EXCEPT !.loaded = TRUE, !.scripts = scripts, !.n = n,
                                            !.circles = circles, !.parallaxEls = els,
                                            !.event = "load"], 0)
     /\ UNCHANGED <<users, projects, nextProjectId, contacts, nextContactId, outbox, hits,
                    resp, running>>

\* click on the next arrow
NextClick ==
  /\ page.loaded
  /\ page' = showSlide([page EXCEPT !.current = NextIndex(page.current, page.n),
                                    !.event = "next"],
                       NextIndex(page.current, page.n))
  /\ UNCHANGED <<users, projects, nextProjectId, contacts, nextContactId, outbox, hits,
                 resp, running>>

\* click on the back arrow
BackClick ==
  /\ page.loaded
  /\ page' = showSlide([page EXCEPT !.current = BackIndex(page.current, page.n),
                                    !.event = "back"],
                       BackIndex(page.current, page.n))
  /\ UNCHANGED <<users, projects, nextProjectId, contacts, nextContactId, outbox, hits,
                 resp, running>>

\* click on dot i
DotClick(i) ==
  /\ page.loaded
  /\ i \in 0..(page.n - 1)
  /\ page' = showSlide([page EXCEPT !.current = i, !.event = "dot"], i)
  /\ UNCHANGED <<users, projects, nextProjectId, contacts, nextContactId, outbox, hits,
                 resp, running>>

\* el.dataset.speed of the parallax elements, in hundredths: one element with
\* data-speed="0.5", one without the attribute, one with data-speed="0", and
\* the circles of main.js with the speed of their circleData
DataSpeed(el) ==
  CASE el = "blob"   -> [set |-> TRUE,  hundredths |-> 50]
    [] el = "circle" -> [set |-> FALSE, hundredths |-> 0]
    [] el = "arc"    -> [set |-> TRUE,  hundredths |-> 0]
    [] OTHER         -> [set |-> TRUE,  hundredths |-> CircleData[el]]

\* parseFloat(el.dataset.speed) || 0.2: NaN and 0 give the default
SpeedHundredths(el) ==
  IF DataSpeed(el).set /\ DataSpeed(el).hundredths # 0 THEN DataSpeed(el).hundredths
  ELSE DefaultSpeedHundredths

updateParallaxKeepsTicking(p) ==
  [p EXCEPT !.transform = [el \in DOMAIN p.transform |->
                             IF el \in p.parallaxEls THEN p.lastScroll * SpeedHundredths(el)
                             ELSE p.transform[el]]]

\* updateParallax()
updateParallax(p) ==
  [p EXCEPT !.transform = [el \in DOMAIN p.transform |->
                             IF el \in p.parallaxEls THEN p.lastScroll * SpeedHundredths(el)
                             ELSE p.transform[el]],
            !.ticking = FALSE]

\* the scroll listener of initParallax
onScroll(p) ==
  [p EXCEPT !.lastScroll = p.scrollY,
            !.pending = IF p.ticking THEN @ ELSE @ + 1,
            !.ticking = TRUE]

\* the scroll listeners of parallaxBlob, createExpertiseCircles and
\* parallaxExpertiseArc: each writes its transform within the event
mainScroll(p) ==
  [p EXCEPT !.transform = [el \in DOMAIN p.transform |->
                             IF el = "blob" THEN p.scrollY * 15
                             ELSE IF el = "arc" THEN p.scrollY * 18
                             ELSE IF el \in p.circles THEN p.scrollY * CircleData[el]
                             ELSE p.transform[el]]]

\* the window is scrolled to y and the scroll event is handled by the
\* listeners of the scripts the page includes
ScrollEvent(y) ==
  LET scrolled == [page EXCEPT !.scrollY = y, !.event = "scroll"]
      byMain   == IF "main" \in page.scripts THEN mainScroll(scrolled) ELSE scrolled
  IN /\ page.loaded
     /\ y # page.scrollY
     /\ page' = IF "app" \in page.scripts THEN onScroll(byMain) ELSE byMain
     /\ UNCHANGED <<users, projects, nextProjectId, contacts, nextContactId, outbox, hits,
                    resp, running>>

\* the next animation frame: the browser runs the callbacks requested
AnimationFrame ==
  /\ page.loaded
  /\ page.pending > 0
  /\ page' = [updateParallax(page) EXCEPT !.pending = 0, !.event = "frame"]
  /\ UNCHANGED <<users, projects, nextProjectId, contacts, nextContactId, outbox, hits,
                 resp, running>>

\* the pages: with main.js, with app.js, and with both in either order
NextPage ==
  \/ \E n \in 1..MaxSlides, container \in BOOLEAN :
       \/ LoadPage(n, {"main"}, container, TRUE)
       \/ LoadPage(n, {"app"}, container, FALSE)
       \/ \E mainFirst \in BOOLEAN : LoadPage(n, {"main", "app"}, container, mainFirst)
  \/ NextClick
  \/ BackClick
  \/ \E i \in 0..(MaxSlides - 1) : DotClick(i)
  \/ \E y \in 0..MaxScroll : ScrollEvent(y)
  \/ AnimationFrame

SpecPage == Init /\ [][NextPage]_vars

\* the browser runs a requested animation frame callback at its next repaint
SpecPageFair == Init /\ [][NextPage]_vars /\ WF_vars(AnimationFrame)

\* C28: with n >= 1 slides and as many dots, after any clicks on next, back
\* and the dots the index is within 0..n-1, the slide and the dot at the index
\* and no others carry 'active', and the back button is hidden exactly at
\* index 0; next from the last slide goes to 0, back from 0 to the last.
C28_SliderInRange ==
  /\ [](page.loaded =>
          /\ page.current \in 0..(page.n - 1)
          /\ page.slideActive = {page.current}
          /\ page.dotActive = {page.current}
          /\ page.backDisplay = "none" <=> page.current = 0)
  /\ [][ /\ (page'.event = "next" /\ page' # page) =>
              page'.current = IF page.current = page.n - 1 THEN 0 ELSE page.current + 1
         /\ (page'.event = "back" /\ page' # page) =>
              page'.current = IF page.current = 0 THEN page.n - 1 ELSE page.current - 1 ]_vars

\* back has been clicked at index 0 of three slides
C28_Witness ==
  /\ page.event = "back"
  /\ page.n = MaxSlides
  /\ page.current = page.n - 1
  /\ page.backDisplay = "flex"

\* every parallax element is placed by the scroll position
Placed ==
  \A el \in page.parallaxEls : page.transform[el] = page.scrollY * SpeedHundredths(el)

\* C29: at most one updateParallax callback waits for a frame at any time,
\* ticking is true exactly while one waits, and a frame that follows a scroll
\* event places every parallax element by the latest scroll position.
C29_OneFramePending ==
  /\ [](page.pending <= 1 /\ (page.ticking <=> page.pending = 1))
  /\ (page.ticking ~> (~page.ticking /\ Placed))

\* a frame has placed the elements after a scroll to the end
C29_Witness ==
  /\ page.event = "frame"
  /\ page.scrollY = MaxScroll
  /\ ~page.ticking
  /\ Placed

====
